---- MODULE Spec2Model ----
(***************************************************************************)
(* A model of the Mython interpreter: the indentation-aware lexer          *)
(* (Lexer::ParseTokens and its sub-scanners) and the tree-walking          *)
(* evaluator (runtime.cpp, statement.cpp).                                 *)
(*                                                                         *)
(* Characters are one-character strings, texts are sequences of            *)
(* characters.  The lexer is a step machine whose program counter walks    *)
(* through the sub-scanners in the order ParseTokens calls them.           *)
(***************************************************************************)
EXTENDS Integers, Sequences, FiniteSets, TLC

VARIABLES
    input,         \* the std::istream: buffer, read position, state bits
    tokens_,       \* Lexer::tokens_
    space_count_,  \* Lexer::space_count_
    lpc,           \* position of the lexer inside ParseTokens
    current_token_, \* Lexer::current_token_, as its distance from begin()
    returned,      \* what the last NextToken call returned
    calls,         \* the number of NextToken calls made
    globals,       \* the closure of the top-level program
    heap,          \* the ClassInstance objects: class and field map of each
    output,        \* the context's output stream
    moved,         \* the class definitions already executed
    build,         \* what the build does on each kind of undefined behaviour
    outcome,       \* how the last top-level statement ended, and its value
    last,          \* the last top-level statement executed
    used,          \* the NewInstance nodes of the top level already executed
    steps,         \* the number of top-level statements executed
    table,         \* a class table: name_, methods_ and parent_ of each class
    built,         \* names_methods_ of the classes constructed so far
    query          \* the last Class::GetMethod call and what it returned

lexvars == <<input, tokens_, space_count_, lpc, current_token_, returned, calls>>
evalvars == <<globals, heap, output, moved, build, outcome, last, used, steps>>
classvars == <<table, built, query>>
vars == <<lexvars, evalvars, classvars>>

(***************************************************************************)
(* Bounds                                                                  *)
(***************************************************************************)
MaxLen == 5

\* The characters the inputs are drawn from.
Alphabet == {"\n", " ", "a", "1", "#", "'", "="}

\* What (char) of istream's EOF (-1) compares equal to: no input character.
EOFC == "EOF"

\* The values an uninitialized char may hold, as far as the code tells them
\* apart: '=', which ParseComparisonOperators compares its char with before
\* looking at anything else, and any other value.
Indeterminate == {"=", EOFC}

(***************************************************************************)
(* Character classes of <cctype> in the "C" locale                         *)
(***************************************************************************)
Letters == {"a", "b", "c", "d", "e", "f", "i", "l", "n", "o", "p", "r",
            "s", "t", "u", "N", "T", "F"}
Digits == {"0", "1", "2", "3", "4", "5", "6", "7", "8", "9"}
Puncts == {"#", "'", "\"", "=", "<", ">", "!", "\\", ".", ",", "(", ")",
           ":", "+", "-", "*", "/", "_"}

isalpha(c) == c \in Letters
isdigit(c) == c \in Digits
isalnum(c) == isalpha(c) \/ isdigit(c)
ispunct(c) == c \in Puncts

DigitValue(c) ==
    CASE c = "0" -> 0 [] c = "1" -> 1 [] c = "2" -> 2 [] c = "3" -> 3
      [] c = "4" -> 4 [] c = "5" -> 5 [] c = "6" -> 6 [] c = "7" -> 7
      [] c = "8" -> 8 [] c = "9" -> 9

(***************************************************************************)
(* std::istream over an in-memory buffer                                   *)
(***************************************************************************)
NewStream(buf) ==
    [buf |-> buf, pos |-> 0, eof |-> FALSE, fail |-> FALSE, bad |-> FALSE]

good(s) == ~s.eof /\ ~s.fail /\ ~s.bad

\* rdstate() == std::ios_base::eofbit
OnlyEofbit(s) == s.eof /\ ~s.fail /\ ~s.bad

\* istream::get(char&): on failure the argument is left as it was (u).
get(s, u) ==
    IF ~good(s) THEN [s |-> [s EXCEPT !.fail = TRUE], ok |-> FALSE, c |-> u]
    ELSE IF s.pos >= Len(s.buf)
         THEN [s |-> [s EXCEPT !.eof = TRUE, !.fail = TRUE], ok |-> FALSE, c |-> u]
         ELSE [s |-> [s EXCEPT !.pos = @ + 1], ok |-> TRUE, c |-> s.buf[s.pos + 1]]

\* istream::peek(): end of input sets eofbit only.
peek(s) ==
    IF ~good(s) THEN [s |-> [s EXCEPT !.fail = TRUE], c |-> EOFC]
    ELSE IF s.pos >= Len(s.buf)
         THEN [s |-> [s EXCEPT !.eof = TRUE], c |-> EOFC]
         ELSE [s |-> s, c |-> s.buf[s.pos + 1]]

\* istream::putback(c): clears eofbit, then needs a good stream.
putback(s, c) ==
    LET s1 == [s EXCEPT !.eof = FALSE] IN
    IF s1.fail \/ s1.bad THEN [s1 EXCEPT !.fail = TRUE]
    ELSE IF s1.pos > 0 /\ s1.buf[s1.pos] = c
         THEN [s1 EXCEPT !.pos = @ - 1]
         ELSE [s1 EXCEPT !.bad = TRUE]

RECURSIVE GetlineLoop(_, _)
GetlineLoop(s, n) ==
    IF s.pos >= Len(s.buf)
    THEN [s EXCEPT !.eof = TRUE, !.fail = (n = 0)]
    ELSE IF s.buf[s.pos + 1] = "\n"
         THEN [s EXCEPT !.pos = @ + 1]
         ELSE GetlineLoop([s EXCEPT !.pos = @ + 1], n + 1)

\* std::getline(input, comment, '\n'): the delimiter is extracted and dropped.
getline(s) ==
    IF ~good(s) THEN [s EXCEPT !.fail = TRUE] ELSE GetlineLoop(s, 0)

(***************************************************************************)
(* Tokens                                                                  *)
(***************************************************************************)
Tok(type) == [type |-> type]
TokV(type, value) == [type |-> type, value |-> value]

Newline == Tok("Newline")
Indent == Tok("Indent")
Dedent == Tok("Dedent")
Eof == Tok("Eof")

\* Lexer::keywords_
keywords_ ==
    [w \in {<<"c", "l", "a", "s", "s">>, <<"r", "e", "t", "u", "r", "n">>,
            <<"i", "f">>, <<"e", "l", "s", "e">>, <<"d", "e", "f">>,
            <<"p", "r", "i", "n", "t">>, <<"a", "n", "d">>, <<"o", "r">>,
            <<"n", "o", "t">>, <<"N", "o", "n", "e">>,
            <<"T", "r", "u", "e">>, <<"F", "a", "l", "s", "e">>} |->
       CASE w = <<"c", "l", "a", "s", "s">> -> Tok("Class")
         [] w = <<"r", "e", "t", "u", "r", "n">> -> Tok("Return")
         [] w = <<"i", "f">> -> Tok("If")
         [] w = <<"e", "l", "s", "e">> -> Tok("Else")
         [] w = <<"d", "e", "f">> -> Tok("Def")
         [] w = <<"p", "r", "i", "n", "t">> -> Tok("Print")
         [] w = <<"a", "n", "d">> -> Tok("And")
         [] w = <<"o", "r">> -> Tok("Or")
         [] w = <<"n", "o", "t">> -> Tok("Not")
         [] w = <<"N", "o", "n", "e">> -> Tok("None")
         [] w = <<"T", "r", "u", "e">> -> Tok("True")
         [] w = <<"F", "a", "l", "s", "e">> -> Tok("False")]

INDENT_SPACES_COUNT == 2

INT_MAX == 2147483647
INT_MIN == -INT_MAX - 1

\* C++ integer division truncates toward zero (b # 0, no overflow).
TruncDiv(a, b) ==
    IF b > 0
    THEN IF a >= 0 THEN a \div b
         ELSE (a \div b) + (IF a % b # 0 THEN 1 ELSE 0)
    ELSE IF b = INT_MIN THEN (IF a = INT_MIN THEN 1 ELSE 0)
    ELSE IF a >= 0 THEN -(a \div (-b))
    ELSE -((a \div (-b)) + (IF a % (-b) # 0 THEN 1 ELSE 0))

Abs(n) == IF n < 0 THEN -n ELSE n

Repeat(tok, n) == [i \in 1..n |-> tok]

Last(seq) == seq[Len(seq)]

\* A scanner's outcome: the stream, the tokens, the indent counter, and
\* whether it threw.
LexState(s, toks, sc, thrown) ==
    [s |-> s, toks |-> toks, sc |-> sc, thrown |-> thrown]

(***************************************************************************)
(* Lexer sub-scanners.  u is the value an uninitialized local char holds   *)
(* in the two scanners that can read one.                                  *)
(***************************************************************************)
RECURSIVE SpacesLoop(_, _, _)
\* while (input.get(current_char) && current_char == ' ') ++spaces_count;
SpacesLoop(s, n, u) ==
    LET r == get(s, u) IN
    IF r.ok /\ r.c = " " THEN SpacesLoop(r.s, n + 1, r.c)
    ELSE [s |-> r.s, n |-> n, c |-> r.c]

\* A ParseIndent that emits the tokens but never updates space_count_.
ParseIndent_KeepCounter(s, toks, sc, u) ==
    IF peek(IF ~OnlyEofbit(SpacesLoop(s, 0, u).s)
            THEN putback(SpacesLoop(s, 0, u).s, SpacesLoop(s, 0, u).c)
            ELSE SpacesLoop(s, 0, u).s).c \in {"\n", "#"}
    THEN LexState(peek(IF ~OnlyEofbit(SpacesLoop(s, 0, u).s)
                       THEN putback(SpacesLoop(s, 0, u).s, SpacesLoop(s, 0, u).c)
                       ELSE SpacesLoop(s, 0, u).s).s, toks, sc, FALSE)
    ELSE LexState(peek(IF ~OnlyEofbit(SpacesLoop(s, 0, u).s)
                       THEN putback(SpacesLoop(s, 0, u).s, SpacesLoop(s, 0, u).c)
                       ELSE SpacesLoop(s, 0, u).s).s,
                  toks \o Repeat(IF SpacesLoop(s, 0, u).n > sc THEN Indent
                                 ELSE Dedent,
                                 Abs(TruncDiv(SpacesLoop(s, 0, u).n - sc,
                                              INDENT_SPACES_COUNT))),
                  sc, FALSE)

ParseIndent(s, toks, sc, u) ==
    LET l == SpacesLoop(s, 0, u)
        s1 == IF ~OnlyEofbit(l.s) THEN putback(l.s, l.c) ELSE l.s
        p == peek(s1)
        indents_count == TruncDiv(l.n - sc, INDENT_SPACES_COUNT)
        indent_type == IF indents_count > 0 THEN Indent ELSE Dedent
    IN  IF p.c = "\n" \/ p.c = "#"
        THEN LexState(p.s, toks, sc, FALSE)
        ELSE LexState(p.s, toks \o Repeat(indent_type, Abs(indents_count)),
                      l.n, FALSE)

\* A ParseNewLine that emits Newline for every newline character.
ParseNewLine_Always(s, toks, sc, u) ==
    IF get(s, u).c = "\n"
    THEN ParseIndent(get(s, u).s, Append(toks, Newline), sc, u)
    ELSE LexState(putback(get(s, u).s, get(s, u).c), toks, sc, FALSE)

ParseNewLine(s, toks, sc, u) ==
    LET r == get(s, u) IN
    IF r.c = "\n"
    THEN ParseIndent(r.s,
                     IF toks # <<>> /\ Last(toks) # Newline
                     THEN Append(toks, Newline) ELSE toks,
                     sc, u)
    ELSE LexState(putback(r.s, r.c), toks, sc, FALSE)

\* The escapes ParseStrings recognizes, with the character each denotes.
Unescape(c) ==
    CASE c = "n" -> "\n" [] c = "t" -> "\t" [] c = "r" -> "\r"
      [] c = "\"" -> "\"" [] c = "'" -> "'" [] c = "\\" -> "\\"
      [] OTHER -> EOFC

RECURSIVE StringLoop(_, _, _)
\* while (input.get(current_char)) { ... } of ParseStrings
StringLoop(s, open_char, str) ==
    LET r == get(s, open_char) IN
    IF ~r.ok THEN [s |-> r.s, str |-> str, thrown |-> FALSE]
    ELSE IF r.c = open_char THEN [s |-> r.s, str |-> str, thrown |-> FALSE]
    ELSE IF r.c = "\\"
         THEN LET e == get(r.s, r.c) IN
              IF ~e.ok THEN StringLoop(e.s, open_char, str)
              ELSE IF Unescape(e.c) = EOFC
                   THEN [s |-> e.s, str |-> str, thrown |-> TRUE]
                   ELSE StringLoop(e.s, open_char,
                                   Append(str, Unescape(e.c)))
    ELSE IF r.c = "\n" \/ r.c = "\r"
         THEN [s |-> r.s, str |-> str, thrown |-> TRUE]
    ELSE StringLoop(r.s, open_char, Append(str, r.c))

ParseStrings(s, toks, sc) ==
    \* int get(): EOF converts to the char EOFC
    LET r == get(s, EOFC) IN
    IF r.c = "'" \/ r.c = "\""
    THEN LET l == StringLoop(r.s, r.c, <<>>) IN
         IF l.thrown THEN LexState(l.s, toks, sc, TRUE)
         ELSE LexState(l.s, Append(toks, TokV("String", l.str)), sc, FALSE)
    ELSE LexState(putback(r.s, r.c), toks, sc, FALSE)

RECURSIVE IdLoop(_, _, _)
IdLoop(s, id, u) ==
    LET r == get(s, u) IN
    IF ~r.ok THEN [s |-> r.s, id |-> id]
    ELSE IF isalnum(r.c) \/ r.c = "_" THEN IdLoop(r.s, Append(id, r.c), r.c)
    ELSE [s |-> putback(r.s, r.c), id |-> id]

\* A ParseId that never consults the keyword table.
ParseId_NoKeywords(s, toks, sc) ==
    IF isalpha(peek(s).c) \/ peek(s).c = "_"
    THEN LexState(IdLoop(peek(s).s, <<>>, peek(s).c).s,
                  Append(toks, TokV("Id", IdLoop(peek(s).s, <<>>, peek(s).c).id)),
                  sc, FALSE)
    ELSE LexState(peek(s).s, toks, sc, FALSE)

ParseId(s, toks, sc) ==
    LET p == peek(s) IN
    IF isalpha(p.c) \/ p.c = "_"
    THEN LET l == IdLoop(p.s, <<>>, p.c) IN
         IF l.id \in DOMAIN keywords_
         THEN LexState(l.s, Append(toks, keywords_[l.id]), sc, FALSE)
         ELSE LexState(l.s, Append(toks, TokV("Id", l.id)), sc, FALSE)
    ELSE LexState(p.s, toks, sc, FALSE)

ParseComparisonOperators(s, toks, sc, u) ==
    LET r == get(s, u)
        p == peek(r.s)
        two(type) == LexState(get(p.s, u).s, Append(toks, Tok(type)), sc, FALSE)
    IN  IF r.c = "=" /\ p.c = "=" THEN two("Eq")
        ELSE IF r.c = ">" /\ p.c = "=" THEN two("GreaterOrEq")
        ELSE IF r.c = "<" /\ p.c = "=" THEN two("LessOrEq")
        ELSE IF r.c = "!" /\ p.c = "=" THEN two("NotEq")
        ELSE LexState(putback(p.s, r.c), toks, sc, FALSE)

SkipComment(s) ==
    LET r == get(s, "#") IN
    IF r.c = "#"
    THEN LET g == getline(r.s) IN
         IF ~OnlyEofbit(g) THEN putback(g, "\n") ELSE g
    ELSE putback(r.s, r.c)

ParseChar(s, toks, sc) ==
    LET p == peek(s) IN
    IF ispunct(p.c)
    THEN IF p.c = "#"
         THEN LexState(SkipComment(p.s), toks, sc, FALSE)
         ELSE LET r == get(p.s, p.c) IN
              LexState(r.s, Append(toks, TokV("Char", r.c)), sc, FALSE)
    ELSE LexState(p.s, toks, sc, FALSE)

RECURSIVE NumLoop(_, _, _)
NumLoop(s, num, u) ==
    LET r == get(s, u) IN
    IF ~r.ok THEN [s |-> r.s, num |-> num]
    ELSE IF isdigit(r.c) THEN NumLoop(r.s, Append(num, r.c), r.c)
    ELSE [s |-> putback(r.s, r.c), num |-> num]

RECURSIVE stoi(_)
\* decimal value of a digit string; -1 when it does not fit an int
stoi(num) ==
    IF num = <<>> THEN 0
    ELSE LET hi == stoi(SubSeq(num, 1, Len(num) - 1)) IN
         IF hi < 0 \/ hi > (INT_MAX - DigitValue(Last(num))) \div 10 THEN -1
         ELSE hi * 10 + DigitValue(Last(num))

ParseNumbers(s, toks, sc) ==
    LET p == peek(s) IN
    IF isdigit(p.c)
    THEN LET l == NumLoop(p.s, <<>>, p.c) IN
         IF stoi(l.num) < 0 THEN LexState(l.s, toks, sc, TRUE)
         ELSE LexState(l.s, Append(toks, TokV("Number", stoi(l.num))), sc, FALSE)
    ELSE LexState(p.s, toks, sc, FALSE)

RECURSIVE SkipSpaces(_)
SkipSpaces(s) ==
    LET p == peek(s) IN
    IF p.c = " " THEN SkipSpaces(get(p.s, p.c).s) ELSE p.s

(***************************************************************************)
(* Lexer::Lexer / Lexer::ParseTokens as a step machine                     *)
(***************************************************************************)
\* Source texts beyond the alphabet: every keyword alone, followed by a
\* letter and by a digit; keywords among other tokens; string literals with
\* both quotes and with escapes, closed and not.
KeywordInputs ==
    UNION {{w, Append(w, "a"), Append(w, "1")} : w \in DOMAIN keywords_}
    \cup { <<"i", "f", " ", "a">>, <<"1", "o", "r">>,
           <<"a", " ", "n", "o", "t", "\n">> }

StringInputs ==
    { <<"'", "\\">>, <<"'", "a", "\\">>, <<"'", "\\", "'">>,
      <<"'", "\\", "'", "'">>, <<"'", "\\", "n", "'">>, <<"'", "\\", "a", "'">>,
      <<"\"", "a", "'">>, <<"\"", "a", "\"">>, <<"'", "a", "\"">>,
      <<"i", "f", "'", "a", "'">>, <<"a", "=", "=", "'", "a", "'">>,
      <<"a", "\"", "a", "\"">> }

\* Texts with characters of no class of the lexer: a tab, a carriage return.
ControlInputs ==
    { <<"\t">>, <<"\r">>, <<"a", "\t", "a">>, <<"\n", " ", "\t">>, <<"1", "\r", "\n">> }

Inputs ==
    UNION {[1..n -> Alphabet] : n \in 0..MaxLen}
    \cup KeywordInputs \cup StringInputs \cup ControlInputs

\* The value of returned before any NextToken call
NoToken == Tok("")

\* No NextToken call has been made.
NoCalls == returned = NoToken /\ calls = 0

LexerInit ==
    /\ input \in {NewStream(buf) : buf \in Inputs}
    /\ tokens_ = <<>>
    /\ space_count_ = 0
    /\ lpc = "loop"
    /\ current_token_ = 0
    /\ NoCalls

\* The calls of the loop body, each made on what the one before it left
\* unless that one threw.
ThenParseStrings(r) ==
    IF r.thrown THEN r ELSE ParseStrings(r.s, r.toks, r.sc)

ThenParseId(r) ==
    IF r.thrown THEN r ELSE ParseId(r.s, r.toks, r.sc)

ThenParseComparisonOperators(r, u) ==
    IF r.thrown THEN r ELSE ParseComparisonOperators(r.s, r.toks, r.sc, u)

ThenParseChar(r) ==
    IF r.thrown THEN r ELSE ParseChar(r.s, r.toks, r.sc)

ThenParseNumbers(r) ==
    IF r.thrown THEN r ELSE ParseNumbers(r.s, r.toks, r.sc)

ThenSkipSpaces(r) ==
    IF r.thrown THEN r ELSE LexState(SkipSpaces(r.s), r.toks, r.sc, FALSE)

\* The body of the loop of ParseTokens on the stream s; u1 and u2 are what
\* the unset current_char of ParseNewLine and of ParseComparisonOperators
\* hold.
LoopBody(s, toks, sc, u1, u2) ==
    ThenSkipSpaces(
        ThenParseNumbers(
            ThenParseChar(
                ThenParseComparisonOperators(
                    ThenParseId(
                        ThenParseStrings(ParseNewLine(s, toks, sc, u1))),
                    u2))))

\* What a turn of the loop leaves behind; an exception ends ParseTokens.
Scan(r) ==
    /\ input' = r.s
    /\ tokens_' = r.toks
    /\ space_count_' = r.sc
    /\ lpc' = IF r.thrown THEN "failed" ELSE "loop"
    /\ UNCHANGED <<current_token_, returned, calls, evalvars, classvars>>

\* while (input.get(current_char)) { input.putback(current_char); ... }
\* One turn of the loop.
ParseTokensLoop ==
    /\ lpc = "loop"
    /\ get(input, EOFC).ok
    /\ \E r \in {LoopBody(putback(get(input, EOFC).s, get(input, EOFC).c),
                          tokens_, space_count_, u1, u2) :
                     u1 \in Indeterminate, u2 \in Indeterminate} :
          Scan(r)

\* A tail of ParseTokens that closes the stream with Eof and nothing else.
ParseTokensEnd_EofOnly(toks) == Append(toks, Eof)

\* The tail of ParseTokens once the stream is exhausted.
ParseTokensEnd(toks) ==
    Append(IF toks # <<>> /\ Last(toks) # Newline /\ Last(toks) # Dedent
           THEN Append(toks, Newline) ELSE toks,
           Eof)

LoopExit ==
    /\ lpc = "loop"
    /\ ~get(input, EOFC).ok
    /\ input' = get(input, EOFC).s
    /\ tokens_' = ParseTokensEnd(tokens_)
    /\ lpc' = "done"
    /\ current_token_' = 0
    /\ UNCHANGED <<space_count_, returned, calls, evalvars, classvars>>

LexerNext == ParseTokensLoop \/ LoopExit

RECURSIVE ParseTokens(_, _, _)
\* Lexer::ParseTokens run to its end on the stream s: the states it may end
\* in, one per value the unset chars may hold.
ParseTokens(s, toks, sc) ==
    IF ~get(s, EOFC).ok
    THEN {LexState(get(s, EOFC).s, ParseTokensEnd(toks), sc, FALSE)}
    ELSE UNION {IF r.thrown THEN {r} ELSE ParseTokens(r.s, r.toks, r.sc) :
                   r \in {LoopBody(putback(get(s, EOFC).s, get(s, EOFC).c),
                                   toks, sc, u1, u2) :
                              u1 \in Indeterminate, u2 \in Indeterminate}}

(***************************************************************************)
(* The cursor of a constructed Lexer: CurrentToken and NextToken           *)
(***************************************************************************)
MaxCursorLen == 3
MaxCalls == 6

\* *current_token_
Lexer_CurrentToken(toks, cur) == toks[cur + 1]

\* A NextToken that returns the current token and then advances.
Lexer_NextToken_PostIncrement(toks, cur) ==
    IF cur + 1 = Len(toks) THEN [cur |-> cur, token |-> Eof]
    ELSE [cur |-> cur + 1, token |-> toks[cur + 1]]

\* Lexer::NextToken: the cursor it leaves and the token it returns
Lexer_NextToken(toks, cur) ==
    IF cur + 1 = Len(toks) THEN [cur |-> cur, token |-> Eof]
    ELSE [cur |-> cur + 1, token |-> toks[cur + 2]]

CursorInputs == UNION {[1..n -> Alphabet] : n \in 0..MaxCursorLen}

\* Lexer::Lexer has run ParseTokens on the input without an exception.
CursorInit ==
    /\ \E buf \in CursorInputs :
          \E r \in ParseTokens(NewStream(buf), <<>>, 0) :
              /\ ~r.thrown
              /\ input = r.s
              /\ tokens_ = r.toks
              /\ space_count_ = r.sc
    /\ lpc = "done"
    /\ current_token_ = 0
    /\ NoCalls

NextToken ==
    /\ lpc = "done"
    /\ calls < MaxCalls
    /\ current_token_' = Lexer_NextToken(tokens_, current_token_).cur
    /\ returned' = Lexer_NextToken(tokens_, current_token_).token
    /\ calls' = calls + 1
    /\ UNCHANGED <<input, tokens_, space_count_, lpc, evalvars, classvars>>

CursorNext == NextToken


(***************************************************************************)
(* Runtime objects (runtime.cpp).  An ObjectHolder is modelled by the      *)
(* value it refers to; a ClassInstance is referred to by the identity of   *)
(* the instance, whose field map lives in the heap.                        *)
(***************************************************************************)
None == [t |-> "None"]
Number(n) == [t |-> "Number", v |-> n]
String(str) == [t |-> "String", v |-> str]
Bool(b) == [t |-> "Bool", v |-> b]
Class(name) == [t |-> "Class", v |-> name]
Instance(id) == [t |-> "Instance", v |-> id]

\* ObjectHolder::operator bool
NonEmpty(h) == h.t # "None"

\* Closure: a map from names to holders.
EmptyClosure == [n \in {} |-> None]
Bind(closure, name, h) ==
    [n \in DOMAIN closure \cup {name} |-> IF n = name THEN h ELSE closure[n]]

\* The evaluation state threaded through Execute: the closure in scope, the
\* field maps of the instances, the context's output stream, the class
\* definitions whose holder was moved into a closure, and what the build
\* does on undefined behaviour.
State(clo, hp, out, mvd, ub) ==
    [clo |-> clo, heap |-> hp, out |-> out, moved |-> mvd, ub |-> ub]

StateOf(r) == State(r.clo, r.heap, r.out, r.moved, r.ub)

\* The outcome of an evaluation: k is "ok" (v is the value returned),
\* "return" (an ObjectHolder was thrown), "error" (a std::runtime_error was
\* thrown, v is its message) or "crash" (the process died).
Result(k, v, st) ==
    [k |-> k, v |-> v, clo |-> st.clo, heap |-> st.heap, out |-> st.out,
     moved |-> st.moved, ub |-> st.ub]

Ok(v, st) == Result("ok", v, st)
\* throw std::runtime_error(msg)
RuntimeError(msg) == [t |-> "runtime_error", v |-> msg]
Throw(msg, st) == Result("error", RuntimeError(msg), st)

\* Undefined behaviour: signed int overflow, INT_MIN / -1 and a call or an
\* access through a null pointer.  On each kind the build either traps, or
\* carries on with r; what it does on one kind says nothing about another.
UBOutcomes == {"trap", "proceed"}
UBKinds == {"overflow", "divide", "null"}
Builds == [UBKinds -> UBOutcomes]
Trapping == [kind \in UBKinds |-> "trap"]
Undefined(kind, r) ==
    IF r.ub[kind] = "trap" THEN Result("crash", None, r) ELSE r

WithClosure(r, clo) == [r EXCEPT !.clo = clo]
WithOut(r, out) == [r EXCEPT !.out = out]
Write(st, chars) == [st EXCEPT !.out = @ \o chars]

(***************************************************************************)
(* Statement tree                                                          *)
(***************************************************************************)
NullStmt == [op |-> "null"]
IsNull(s) == s.op = "null"
Const(v) == [op |-> "Const", v |-> v]
Assignment(var, rv) == [op |-> "Assignment", var |-> var, rv |-> rv]
VariableValue(dotted_ids) == [op |-> "VariableValue", dotted_ids |-> dotted_ids]
PrintStmt(args) == [op |-> "Print", args |-> args]
MethodCall(object, method, args) ==
    [op |-> "MethodCall", object |-> object, method |-> method, args |-> args]
Stringify(argument) == [op |-> "Stringify", argument |-> argument]
BinaryOperation(op, lhs, rhs) == [op |-> op, lhs |-> lhs, rhs |-> rhs]
Add(lhs, rhs) == BinaryOperation("Add", lhs, rhs)
Sub(lhs, rhs) == BinaryOperation("Sub", lhs, rhs)
Mult(lhs, rhs) == BinaryOperation("Mult", lhs, rhs)
Div(lhs, rhs) == BinaryOperation("Div", lhs, rhs)
Or(lhs, rhs) == BinaryOperation("Or", lhs, rhs)
And(lhs, rhs) == BinaryOperation("And", lhs, rhs)
Not(argument) == [op |-> "Not", argument |-> argument]
Comparison(cmp, lhs, rhs) ==
    [op |-> "Comparison", cmp |-> cmp, lhs |-> lhs, rhs |-> rhs]
Compound(stmt) == [op |-> "Compound", stmt |-> stmt]
Return(statement) == [op |-> "Return", statement |-> statement]
ClassDefinition(cls) == [op |-> "ClassDefinition", cls |-> cls]
FieldAssignment(object, field_name, rv) ==
    [op |-> "FieldAssignment", object |-> object, field_name |-> field_name,
     rv |-> rv]
IfElse(condition, if_body, else_body) ==
    [op |-> "IfElse", condition |-> condition, if_body |-> if_body,
     else_body |-> else_body]
\* inst is the identity of the ClassInstance embedded in the node
NewInstance(inst, cls, args) ==
    [op |-> "NewInstance", inst |-> inst, cls |-> cls, args |-> args]
MethodBody(body) == [op |-> "MethodBody", body |-> body]

Method(name, formal_params, body) ==
    [name |-> name, formal_params |-> formal_params, body |-> body]

(***************************************************************************)
(* Classes (runtime.cpp).  A class is referred to by its name; a           *)
(* const Method* is the class that owns the method and its position in     *)
(* that class's methods_.                                                  *)
(***************************************************************************)
nullptr == [cls |-> "nullptr", idx |-> 0]
MethodPtr(cls, idx) == [cls |-> cls, idx |-> idx]

RECURSIVE InsertMethods(_, _, _, _)
\* for (const auto& method : methods) names_methods_[method.name] = &method;
InsertMethods(index, owner, methods, i) ==
    IF i > Len(methods) THEN index
    ELSE InsertMethods(Bind(index, methods[i].name, MethodPtr(owner, i)),
                       owner, methods, i + 1)

\* Class::Class: the index built from a class table tbl for the class name.
Class_Class(tbl, name) ==
    LET parent_ == tbl[name].parent
        inherited == IF parent_ # "nullptr"
                     THEN InsertMethods(EmptyClosure, parent_,
                                        tbl[parent_].methods, 1)
                     ELSE EmptyClosure
    IN  InsertMethods(inherited, name, tbl[name].methods, 1)

\* Class::GetMethod against the names_methods_ of a class, index
Class_GetMethod(index, name) ==
    IF name \in DOMAIN index THEN index[name] ELSE nullptr

(***************************************************************************)
(* The program under evaluation: its classes.  In Mython:                  *)
(*                                                                         *)
(*   class A:                                                              *)
(*     def __init__(v):   self.v = v                                       *)
(*     def get():         return self.v                                    *)
(*     def set(v):        self.v = v                                       *)
(*     def me():          print "r" ; return self                          *)
(*     def say(n):        print n ; self.log = n ; return n                *)
(*     def two(p, q):     return p                                         *)
(*     def early(c):      if c: (self.w = 1 ; return "then")               *)
(*                        else: self.w = 3                                 *)
(*                        self.w = 2 ; return "end"                        *)
(*     def outer():       x = self.get() ; self.w = x ; return "outer"     *)
(*     def bad(k):        self.w = 1 ; print "b" ; <failure number k>      *)
(*                        self.w = 2 ; return "unreached"                  *)
(*     def wrap(k):       self.u = 1 ; self.bad(k) ; self.u = 2            *)
(*   class B(A):                                                           *)
(*     def __init__(p, q): self.v = p ; self.w = q                         *)
(*     def get():         return "B"                                       *)
(*     def keep(c):       if c: x = 1 ; return x                           *)
(*     def reach():       return y                                         *)
(*   class C(B):                                                           *)
(*     def get(x):        return x                                         *)
(*     def only_c():      self.v = "c"                                     *)
(*     def __str__():     print "s" ; return "c"                           *)
(*     def __eq__(o):     return True                                      *)
(***************************************************************************)
Self(field) == VariableValue(<<"self", field>>)
SetSelf(field, rv) == FieldAssignment(VariableValue(<<"self">>), field, rv)
Var(name) == VariableValue(<<name>>)
Num(n) == Const(Number(n))
Str(chars) == Const(String(chars))

\* The statements of bad(k): one failure of each kind, selected by k.
Failure(k) ==
    CASE k = 1 -> Assignment("x", Var("nosuch"))
      [] k = 2 -> Assignment("x", Add(Num(1), Str(<<"s">>)))
      [] k = 3 -> MethodCall(Var("self"), "get", <<Num(1), Num(2)>>)
      [] k = 4 -> Assignment("x", Div(Num(1), Num(0)))
      [] k = 5 -> Assignment("x", Add(NullStmt, Num(1)))
      [] OTHER -> Compound(<<>>)

FailureKinds == 1..5

FailIf(k) ==
    IfElse(Comparison("Equal", Var("k"), Num(k)), Failure(k), NullStmt)

MethodsA ==
    << Method("__init__", <<"v">>, MethodBody(SetSelf("v", Var("v")))),
       Method("get", <<>>, MethodBody(Return(Self("v")))),
       Method("set", <<"v">>, MethodBody(SetSelf("v", Var("v")))),
       Method("me", <<>>,
              MethodBody(Compound(<<PrintStmt(<<Str(<<"r">>)>>),
                                    Return(Var("self"))>>))),
       Method("say", <<"n">>,
              MethodBody(Compound(<<PrintStmt(<<Var("n")>>),
                                    SetSelf("log", Var("n")),
                                    Return(Var("n"))>>))),
       Method("two", <<"p", "q">>, MethodBody(Return(Var("p")))),
       Method("early", <<"c">>,
              MethodBody(Compound(<<
                  IfElse(Var("c"),
                         Compound(<<SetSelf("w", Num(1)),
                                    Return(Str(<<"t", "h", "e", "n">>))>>),
                         SetSelf("w", Num(3))),
                  SetSelf("w", Num(2)),
                  Return(Str(<<"e", "n", "d">>))>>))),
       Method("outer", <<>>,
              MethodBody(Compound(<<
                  Assignment("x", MethodCall(Var("self"), "get", <<>>)),
                  SetSelf("w", Var("x")),
                  Return(Str(<<"o", "u", "t", "e", "r">>))>>))),
       Method("bad", <<"k">>,
              MethodBody(Compound(<<
                  SetSelf("w", Num(1)),
                  PrintStmt(<<Str(<<"b">>)>>),
                  FailIf(1), FailIf(2), FailIf(3), FailIf(4), FailIf(5),
                  SetSelf("w", Num(2)),
                  Return(Str(<<"u", "n", "r", "e", "a", "c", "h", "e", "d">>))>>))),
       Method("wrap", <<"k">>,
              MethodBody(Compound(<<
                  SetSelf("u", Num(1)),
                  MethodCall(Var("self"), "bad", <<Var("k")>>),
                  SetSelf("u", Num(2))>>))),
       Method("keep", <<"c">>,
              MethodBody(Compound(<<
                  IfElse(Var("c"), Assignment("x", Num(1)), NullStmt),
                  Return(Var("x"))>>))),
       Method("reach", <<>>, MethodBody(Return(Var("y")))) >>

MethodsB ==
    << Method("__init__", <<"p", "q">>,
              MethodBody(Compound(<<SetSelf("v", Var("p")),
                                    SetSelf("w", Var("q"))>>))),
       Method("get", <<>>, MethodBody(Return(Str(<<"B">>)))) >>

MethodsC ==
    << Method("get", <<"x">>, MethodBody(Return(Var("x")))),
       Method("only_c", <<>>, MethodBody(SetSelf("v", Str(<<"c">>)))),
       Method("__str__", <<>>,
              MethodBody(Compound(<<PrintStmt(<<Str(<<"s">>)>>),
                                    Return(Str(<<"c">>))>>))),
       Method("__eq__", <<"o">>, MethodBody(Return(Const(Bool(TRUE))))) >>

\* name_, methods_ and parent_ of each class of the program
Classes ==
    [c \in {"A", "B", "C"} |->
        CASE c = "A" -> [name |-> "A", methods |-> MethodsA, parent |-> "nullptr"]
          [] c = "B" -> [name |-> "B", methods |-> MethodsB, parent |-> "A"]
          [] c = "C" -> [name |-> "C", methods |-> MethodsC, parent |-> "B"]]

\* names_methods_ of each class of the program, as its constructor built it
names_methods_ == [c \in DOMAIN Classes |-> Class_Class(Classes, c)]

GetMethod(cls, name) == Class_GetMethod(built[cls], name)

\* *method_ptr
Deref(ptr) == table[ptr.cls].methods[ptr.idx]

(***************************************************************************)
(* Evaluator (runtime.cpp, statement.cpp)                                  *)
(***************************************************************************)
RECURSIVE Execute(_, _)
RECURSIVE ExecuteArgs(_, _, _, _)
RECURSIVE ExecuteStatements(_, _, _)
RECURSIVE ClassInstance_Call(_, _, _, _)
RECURSIVE ClassInstance_Print(_, _)
RECURSIVE Object_Print(_, _)
RECURSIVE Equal(_, _, _)
RECURSIVE Less(_, _, _)
RECURSIVE Assignment_Execute(_, _)
RECURSIVE Print_Execute(_, _)
RECURSIVE PrintArgs(_, _, _, _)
RECURSIVE MethodCall_Execute(_, _)
RECURSIVE Stringify_Execute(_, _)
RECURSIVE Add_Execute(_, _)
RECURSIVE Sub_Execute(_, _)
RECURSIVE Mult_Execute(_, _)
RECURSIVE Div_Execute(_, _)
RECURSIVE Compound_Execute(_, _)
RECURSIVE Return_Execute(_, _)
RECURSIVE FieldAssignment_Execute(_, _)
RECURSIVE IfElse_Execute(_, _)
RECURSIVE Or_Execute(_, _)
RECURSIVE And_Execute(_, _)
RECURSIVE Not_Execute(_, _)
RECURSIVE Comparison_Execute(_, _)
RECURSIVE NewInstance_Execute(_, _)
RECURSIVE MethodBody_Execute(_, _)

\* A truthiness in which every object that is not a value is true.
IsTrue_ObjectsTrue(object) ==
    IF ~NonEmpty(object) THEN FALSE
    ELSE IF object.t = "Bool" THEN object.v = TRUE
    ELSE IF object.t = "Number" THEN ~(object.v = 0)
    ELSE IF object.t = "String" THEN ~(object.v = <<>>)
    ELSE TRUE

IsTrue(object) ==
    IF ~NonEmpty(object) THEN FALSE
    ELSE IF object.t = "Bool" THEN object.v = TRUE
    ELSE IF object.t = "Number" THEN ~(object.v = 0)
    ELSE IF object.t = "String" THEN ~(object.v = <<>>)
    ELSE FALSE

\* A HasMethod that accepts surplus arguments.
ClassInstance_HasMethod_AtMost(cls, method, argument_count) ==
    /\ GetMethod(cls, method) # nullptr
    /\ Len(Deref(GetMethod(cls, method)).formal_params) <= argument_count

\* ClassInstance::HasMethod for an instance of class cls
ClassInstance_HasMethod(cls, method, argument_count) ==
    /\ GetMethod(cls, method) # nullptr
    /\ Len(Deref(GetMethod(cls, method)).formal_params) = argument_count

RECURSIVE BindParams(_, _, _, _)
\* for (i...) closure[method_ptr->formal_params[i]] = actual_args[i];
BindParams(closure, formal_params, actual_args, i) ==
    IF i > Len(formal_params) THEN closure
    ELSE BindParams(Bind(closure, formal_params[i], actual_args[i]),
                    formal_params, actual_args, i + 1)

\* A Call whose self is a copy of the instance: the fields the callee sets
\* through self are gone when it returns.
ClassInstance_Call_OnCopy(id, method, actual_args, st) ==
    IF ~ClassInstance_HasMethod(st.heap[id].cls, method, Len(actual_args))
    THEN Throw("Not implemented", st)
    ELSE [WithClosure(
              Execute(Deref(GetMethod(st.heap[id].cls, method)).body,
                      [st EXCEPT !.clo =
                          BindParams(Bind(EmptyClosure, "self", Instance(id)),
                                     Deref(GetMethod(st.heap[id].cls,
                                                     method)).formal_params,
                                     actual_args, 1)]),
              st.clo)
          EXCEPT !.heap[id] = st.heap[id]]

\* ClassInstance::Call on the instance id; the callee runs in its own
\* closure and the caller's closure is in scope again afterwards.
\* A Call whose body runs in the caller's closure, extended with self and
\* the parameters, and leaves it as the body left it.
ClassInstance_Call_InCallerClosure(id, method, actual_args, st) ==
    IF ~ClassInstance_HasMethod(st.heap[id].cls, method, Len(actual_args))
    THEN Throw("Not implemented", st)
    ELSE Execute(Deref(GetMethod(st.heap[id].cls, method)).body,
                 [st EXCEPT !.clo =
                     BindParams(Bind(st.clo, "self", Instance(id)),
                                Deref(GetMethod(st.heap[id].cls,
                                                method)).formal_params,
                                actual_args, 1)])

ClassInstance_Call(id, method, actual_args, st) ==
    LET cls == st.heap[id].cls IN
    IF ~ClassInstance_HasMethod(cls, method, Len(actual_args))
    THEN Throw("Not implemented", st)
    ELSE LET method_ptr == GetMethod(cls, method)
             closure == BindParams(Bind(EmptyClosure, "self", Instance(id)),
                                   Deref(method_ptr).formal_params,
                                   actual_args, 1)
         IN  WithClosure(Execute(Deref(method_ptr).body,
                                 [st EXCEPT !.clo = closure]),
                         st.clo)

RECURSIVE Decimal(_)
Decimal(n) ==
    IF n < 10
    THEN <<CASE n = 0 -> "0" [] n = 1 -> "1" [] n = 2 -> "2" [] n = 3 -> "3"
             [] n = 4 -> "4" [] n = 5 -> "5" [] n = 6 -> "6" [] n = 7 -> "7"
             [] n = 8 -> "8" [] n = 9 -> "9">>
    ELSE Decimal(n \div 10) \o Decimal(n % 10)

\* os << int
NumberChars(n) == IF n < 0 THEN <<"-">> \o Decimal(-n) ELSE Decimal(n)

\* os << this: an address, one per instance
AddressChars(id) == <<"0", "x", id>>

\* ClassInstance::Print to the context's output stream
ClassInstance_Print(id, st) ==
    IF ClassInstance_HasMethod(st.heap[id].cls, "__str__", 0)
    THEN LET r == ClassInstance_Call(id, "__str__", <<>>, st) IN
         IF r.k # "ok" THEN r
         ELSE IF ~NonEmpty(r.v) THEN Undefined("null", Ok(None, r))
         ELSE Object_Print(r.v, StateOf(r))
    ELSE Ok(None, Write(st, AddressChars(id)))

\* Object::Print, by the type of the object
Object_Print(object, st) ==
    CASE object.t = "Number" -> Ok(None, Write(st, NumberChars(object.v)))
      [] object.t = "String" -> Ok(None, Write(st, object.v))
      [] object.t = "Bool" ->
            Ok(None, Write(st, IF object.v THEN <<"T", "r", "u", "e">>
                               ELSE <<"F", "a", "l", "s", "e">>))
      [] object.t = "Class" ->
            Ok(None, Write(st, <<"C", "l", "a", "s", "s", " ">> \o <<object.v>>))
      [] object.t = "Instance" -> ClassInstance_Print(object.v, st)

\* ASCII codes of the characters strings are built from
Ascii(c) ==
    CASE c = "\n" -> 10 [] c = " " -> 32 [] c = "0" -> 48 [] c = "1" -> 49
      [] c = "2" -> 50 [] c = "B" -> 66 [] c = "a" -> 97 [] c = "b" -> 98
      [] c = "c" -> 99 [] c = "d" -> 100 [] c = "e" -> 101 [] c = "h" -> 104
      [] c = "n" -> 110 [] c = "o" -> 111 [] c = "r" -> 114 [] c = "s" -> 115
      [] c = "t" -> 116 [] c = "u" -> 117

RECURSIVE StringLess(_, _)
\* std::string operator<
StringLess(a, b) ==
    IF b = <<>> THEN FALSE
    ELSE IF a = <<>> THEN TRUE
    ELSE IF Ascii(Head(a)) # Ascii(Head(b)) THEN Ascii(Head(a)) < Ascii(Head(b))
    ELSE StringLess(Tail(a), Tail(b))

\* result.TryAs<Bool>()->GetValue() of a comparison method's result
BoolOfCall(r) ==
    IF r.k # "ok" THEN r
    ELSE IF r.v.t = "Bool" THEN r
    ELSE Undefined("null", Ok(Bool(FALSE), r))

Equal(lhs, rhs, st) ==
    IF lhs.t = "Number" /\ rhs.t = "Number" THEN Ok(Bool(lhs.v = rhs.v), st)
    ELSE IF lhs.t = "String" /\ rhs.t = "String" THEN Ok(Bool(lhs.v = rhs.v), st)
    ELSE IF lhs.t = "Bool" /\ rhs.t = "Bool" THEN Ok(Bool(lhs.v = rhs.v), st)
    ELSE IF ~NonEmpty(lhs) /\ ~NonEmpty(rhs) THEN Ok(Bool(TRUE), st)
    ELSE IF /\ lhs.t = "Instance"
            /\ ClassInstance_HasMethod(st.heap[lhs.v].cls, "__eq__", 1)
         THEN BoolOfCall(ClassInstance_Call(lhs.v, "__eq__", <<rhs>>, st))
    ELSE Throw("Cannot compare objects for equality", st)

Less(lhs, rhs, st) ==
    IF lhs.t = "Number" /\ rhs.t = "Number" THEN Ok(Bool(lhs.v < rhs.v), st)
    ELSE IF lhs.t = "String" /\ rhs.t = "String"
         THEN Ok(Bool(StringLess(lhs.v, rhs.v)), st)
    ELSE IF lhs.t = "Bool" /\ rhs.t = "Bool"
         THEN Ok(Bool(~lhs.v /\ rhs.v), st)
    ELSE IF /\ lhs.t = "Instance"
            /\ ClassInstance_HasMethod(st.heap[lhs.v].cls, "__lt__", 1)
         THEN BoolOfCall(ClassInstance_Call(lhs.v, "__lt__", <<rhs>>, st))
    ELSE Throw("Cannot compare objects for less", st)

\* !f(lhs, rhs, context)
Negate(r) == IF r.k = "ok" THEN [r EXCEPT !.v = Bool(~r.v.v)] ELSE r

NotEqual(lhs, rhs, st) == Negate(Equal(lhs, rhs, st))

\* A Greater that is the negation of Less alone.
Greater_NotLess(lhs, rhs, st) == Negate(Less(lhs, rhs, st))

Greater(lhs, rhs, st) ==
    LET l == Less(lhs, rhs, st) IN
    IF l.k # "ok" THEN l
    ELSE IF l.v.v THEN Ok(Bool(FALSE), l)
    ELSE Negate(Equal(lhs, rhs, StateOf(l)))

LessOrEqual(lhs, rhs, st) == Negate(Greater(lhs, rhs, st))

GreaterOrEqual(lhs, rhs, st) == Negate(Less(lhs, rhs, st))

Comparator(cmp, lhs, rhs, st) ==
    CASE cmp = "Equal" -> Equal(lhs, rhs, st)
      [] cmp = "Less" -> Less(lhs, rhs, st)
      [] cmp = "NotEqual" -> NotEqual(lhs, rhs, st)
      [] cmp = "Greater" -> Greater(lhs, rhs, st)
      [] cmp = "LessOrEqual" -> LessOrEqual(lhs, rhs, st)
      [] cmp = "GreaterOrEqual" -> GreaterOrEqual(lhs, rhs, st)

\* Evaluates args[i..] in order, collecting the values; stops at the first
\* one that does not return normally.
ExecuteArgs(args, i, values, st) ==
    IF i > Len(args) THEN Ok(values, st)
    ELSE LET r == Execute(args[i], st) IN
         IF r.k # "ok" THEN r
         ELSE ExecuteArgs(args, i + 1, Append(values, r.v), StateOf(r))

\* ValueStatement::Execute: a constant yields its value
Const_Execute(s, st) == Ok(s.v, st)

Assignment_Execute(s, st) ==
    LET r == Execute(s.rv, st) IN
    IF r.k # "ok" THEN r
    ELSE Ok(r.v, [StateOf(r) EXCEPT !.clo = Bind(@, s.var, r.v)])

RECURSIVE Resolve(_, _, _, _, _)
\* the loop of VariableValue::Execute over dotted_ids[i..]; closure is
\* *current_closure_ptr
Resolve(dotted_ids, i, closure, result, st) ==
    IF i > Len(dotted_ids) THEN Ok(result, st)
    ELSE IF dotted_ids[i] \notin DOMAIN closure
         THEN Throw("Invalid argument name", st)
         ELSE LET found == closure[dotted_ids[i]] IN
              Resolve(dotted_ids, i + 1,
                      IF found.t = "Instance" THEN st.heap[found.v].fields
                      ELSE closure,
                      found, st)

VariableValue_Execute(s, st) ==
    IF Len(s.dotted_ids) > 0 THEN Resolve(s.dotted_ids, 1, st.clo, None, st)
    ELSE Throw("No arguments specified", st)

\* the loop of Print::Execute over args[i..]; result is the last value
PrintArgs(args, i, result, st) ==
    IF i > Len(args) THEN Ok(result, st)
    ELSE LET st1 == IF i # 1 THEN Write(st, <<" ">>) ELSE st
             r == Execute(args[i], st1)
         IN  IF r.k # "ok" THEN r
             ELSE LET w == IF NonEmpty(r.v) THEN Object_Print(r.v, StateOf(r))
                           ELSE Ok(None, Write(StateOf(r),
                                               <<"N", "o", "n", "e">>))
                  IN  IF w.k # "ok" THEN w
                      ELSE PrintArgs(args, i + 1, r.v, StateOf(w))

Print_Execute(s, st) ==
    LET r == PrintArgs(s.args, 1, None, st) IN
    IF r.k # "ok" THEN r ELSE Ok(r.v, Write(StateOf(r), <<"\n">>))

MethodCall_Execute(s, st) ==
    IF IsNull(s.object) THEN Ok(None, st)
    ELSE LET obj == Execute(s.object, st) IN
         IF obj.k # "ok" THEN obj
         ELSE LET args_values == ExecuteArgs(s.args, 1, <<>>, StateOf(obj)) IN
              IF args_values.k # "ok" THEN args_values
              ELSE IF obj.v.t # "Instance"
                   \* obj_ptr is null and is dereferenced
                   THEN Undefined("null", Ok(None, args_values))
                   ELSE ClassInstance_Call(obj.v.v, s.method, args_values.v,
                                           StateOf(args_values))

\* A Stringify that never calls __str__: an instance gives its address.
Stringify_Execute_Address(s, st) ==
    IF Execute(s.argument, st).k # "ok" THEN Execute(s.argument, st)
    ELSE IF ~NonEmpty(Execute(s.argument, st).v)
         THEN Ok(String(<<"N", "o", "n", "e">>), Execute(s.argument, st))
         ELSE IF Execute(s.argument, st).v.t = "Instance"
              THEN Ok(String(AddressChars(Execute(s.argument, st).v.v)),
                      Execute(s.argument, st))
              ELSE Ok(String(Object_Print(Execute(s.argument, st).v,
                                          [StateOf(Execute(s.argument, st))
                                              EXCEPT !.out = <<>>]).out),
                      Execute(s.argument, st))

Stringify_Execute(s, st) ==
    LET obj == Execute(s.argument, st) IN
    IF obj.k # "ok" THEN obj
    ELSE IF ~NonEmpty(obj.v)
         THEN Ok(String(<<"N", "o", "n", "e">>), obj)
         ELSE \* the object prints into a DummyContext of its own
              LET w == Object_Print(obj.v, [StateOf(obj) EXCEPT !.out = <<>>]) IN
              IF w.k # "ok" THEN WithOut(w, obj.out)
              ELSE Ok(String(w.out), WithOut(w, obj.out))

\* Operands evaluated right to left.
Operands_RhsFirst(s, st) ==
    IF IsNull(s.rhs) \/ IsNull(s.lhs)
    THEN Throw("null operands are not supported", st)
    ELSE LET rhs_res == Execute(s.rhs, st) IN
         IF rhs_res.k # "ok" THEN rhs_res
         ELSE LET lhs_res == Execute(s.lhs, StateOf(rhs_res)) IN
              IF lhs_res.k # "ok" THEN lhs_res
              ELSE Ok(<<lhs_res.v, rhs_res.v>>, lhs_res)

\* lhs_->Execute then rhs_->Execute of a binary operation; v is the pair
Operands(s, st) ==
    IF IsNull(s.rhs) \/ IsNull(s.lhs)
    THEN Throw("null operands are not supported", st)
    ELSE LET lhs_res == Execute(s.lhs, st) IN
         IF lhs_res.k # "ok" THEN lhs_res
         ELSE LET rhs_res == Execute(s.rhs, StateOf(lhs_res)) IN
              IF rhs_res.k # "ok" THEN rhs_res
              ELSE Ok(<<lhs_res.v, rhs_res.v>>, rhs_res)

\* int arithmetic.  Signed overflow is undefined; a build that carries on
\* yields the two's complement result.  All intermediate values fit an int.
AddOverflows(a, b) ==
    \/ b > 0 /\ a > INT_MAX - b
    \/ b < 0 /\ a < INT_MIN - b

WrapAdd(a, b) ==
    IF b > 0 /\ a > INT_MAX - b THEN (a - INT_MAX - 1) + (b - INT_MAX - 1)
    ELSE IF b < 0 /\ a < INT_MIN - b THEN (a + INT_MAX + 1) + (b + INT_MAX + 1)
    ELSE a + b

WrapNeg(a) == IF a = INT_MIN THEN INT_MIN ELSE -a

SubOverflows(a, b) == IF b = INT_MIN THEN a >= 0 ELSE AddOverflows(a, -b)

WrapSub(a, b) ==
    IF b = INT_MIN THEN WrapAdd(a, INT_MIN) ELSE WrapAdd(a, -b)

RECURSIVE WrapMulNat(_, _)
\* a * b modulo 2^32 for b >= 0, by doubling
WrapMulNat(a, b) ==
    IF b = 0 THEN 0
    ELSE LET h == WrapMulNat(WrapAdd(a, a), b \div 2) IN
         IF b % 2 = 1 THEN WrapAdd(a, h) ELSE h

WrapMul(a, b) ==
    IF b >= 0 THEN WrapMulNat(a, b)
    ELSE IF b = INT_MIN THEN (IF a % 2 = 1 THEN INT_MIN ELSE 0)
    ELSE WrapNeg(WrapMulNat(a, -b))

MulOverflows(a, b) ==
    IF a = 0 \/ b = 0 THEN FALSE
    ELSE IF a = INT_MIN THEN b # 1
    ELSE IF b = INT_MIN THEN a # 1
    ELSE IF (a < 0) = (b < 0) THEN Abs(a) > INT_MAX \div Abs(b)
    ELSE \* the product must not go below INT_MIN = -(INT_MAX + 1)
         Abs(a) > (INT_MAX \div Abs(b))
                  + (IF INT_MAX % Abs(b) = Abs(b) - 1 THEN 1 ELSE 0)

IntResult(overflows, n, st) ==
    IF overflows THEN Undefined("overflow", Ok(Number(n), st)) ELSE Ok(Number(n), st)

Add_Execute(s, st) ==
    LET o == Operands(s, st) IN
    IF o.k # "ok" THEN o
    ELSE LET lhs == o.v[1]
             rhs == o.v[2]
         IN  IF lhs.t = "Number" /\ rhs.t = "Number"
             THEN IntResult(AddOverflows(lhs.v, rhs.v), WrapAdd(lhs.v, rhs.v),
                            StateOf(o))
             ELSE IF lhs.t = "String" /\ rhs.t = "String"
             THEN Ok(String(lhs.v \o rhs.v), o)
             ELSE IF /\ lhs.t = "Instance"
                     /\ ClassInstance_HasMethod(o.heap[lhs.v].cls, "__add__", 1)
             THEN ClassInstance_Call(lhs.v, "__add__", <<rhs>>, StateOf(o))
             ELSE Throw("Wrong types for add operation", o)

Sub_Execute(s, st) ==
    LET o == Operands(s, st) IN
    IF o.k # "ok" THEN o
    ELSE IF o.v[1].t = "Number" /\ o.v[2].t = "Number"
         THEN IntResult(SubOverflows(o.v[1].v, o.v[2].v),
                        WrapSub(o.v[1].v, o.v[2].v), StateOf(o))
         ELSE Throw("Wrong types for sub operation", o)

Mult_Execute(s, st) ==
    LET o == Operands(s, st) IN
    IF o.k # "ok" THEN o
    ELSE IF o.v[1].t = "Number" /\ o.v[2].t = "Number"
         THEN IntResult(MulOverflows(o.v[1].v, o.v[2].v),
                        WrapMul(o.v[1].v, o.v[2].v), StateOf(o))
         ELSE Throw("Wrong types for mult operation", o)

Div_Execute(s, st) ==
    LET o == Operands(s, st) IN
    IF o.k # "ok" THEN o
    ELSE IF o.v[1].t = "Number" /\ o.v[2].t = "Number"
         THEN IF o.v[2].v = 0 THEN Throw("Division by zero", o)
              ELSE IF o.v[1].v = INT_MIN /\ o.v[2].v = -1
                   THEN Undefined("divide", Ok(Number(INT_MIN), StateOf(o)))
                   ELSE IntResult(FALSE, TruncDiv(o.v[1].v, o.v[2].v),
                                  StateOf(o))
         ELSE Throw("Wrong types for div operation", o)

\* the loop of Compound::Execute over stmt[i..]
ExecuteStatements(stmt, i, st) ==
    IF i > Len(stmt) THEN Ok(None, st)
    ELSE LET r == Execute(stmt[i], st) IN
         IF r.k # "ok" THEN r ELSE ExecuteStatements(stmt, i + 1, StateOf(r))

\* A Compound that walks its list from the back.
Compound_Execute_Reversed(s, st) ==
    ExecuteStatements([i \in 1..Len(s.stmt) |-> s.stmt[Len(s.stmt) + 1 - i]],
                      1, st)

Compound_Execute(s, st) == ExecuteStatements(s.stmt, 1, st)

\* throw statement_->Execute(closure, context);
Return_Execute(s, st) ==
    LET r == Execute(s.statement, st) IN
    IF r.k # "ok" THEN r ELSE Result("return", r.v, r)

\* the holder is moved out of the node: a second execution finds it empty
ClassDefinition_Execute(s, st) ==
    IF s.cls \in st.moved THEN Undefined("null", Ok(None, st))
    ELSE Ok(None, [st EXCEPT !.clo = Bind(@, s.cls, Class(s.cls)),
                             !.moved = @ \cup {s.cls}])

FieldAssignment_Execute(s, st) ==
    LET obj == VariableValue_Execute(s.object, st) IN
    IF obj.k # "ok" THEN obj
    ELSE LET rv == Execute(s.rv, StateOf(obj)) IN
         IF rv.k # "ok" THEN rv
         ELSE IF obj.v.t # "Instance"
              \* obj_ptr is null and is dereferenced
              THEN Undefined("null", Ok(None, rv))
              ELSE Ok(rv.v,
                      [StateOf(rv) EXCEPT
                          !.heap[obj.v.v].fields = Bind(@, s.field_name, rv.v)])

IfElse_Execute(s, st) ==
    LET condition_result == Execute(s.condition, st) IN
    IF condition_result.k # "ok" THEN condition_result
    ELSE IF IsTrue(condition_result.v)
         THEN Execute(s.if_body, StateOf(condition_result))
         ELSE IF ~IsNull(s.else_body)
              THEN Execute(s.else_body, StateOf(condition_result))
              ELSE Ok(None, condition_result)

\* An Or that leaves rhs alone when lhs is true.
Or_Execute_ShortCircuit(s, st) ==
    IF IsNull(s.rhs) \/ IsNull(s.lhs)
    THEN Throw("null operands are not supported", st)
    ELSE IF Execute(s.lhs, st).k # "ok" THEN Execute(s.lhs, st)
    ELSE IF IsTrue(Execute(s.lhs, st).v)
         THEN Ok(Bool(TRUE), Execute(s.lhs, st))
    ELSE IF Execute(s.rhs, StateOf(Execute(s.lhs, st))).k # "ok"
         THEN Execute(s.rhs, StateOf(Execute(s.lhs, st)))
    ELSE Ok(Bool(IsTrue(Execute(s.rhs, StateOf(Execute(s.lhs, st))).v)),
            Execute(s.rhs, StateOf(Execute(s.lhs, st))))

Or_Execute(s, st) ==
    LET o == Operands(s, st) IN
    IF o.k # "ok" THEN o
    ELSE IF IsTrue(o.v[1]) THEN Ok(Bool(TRUE), o)
    ELSE IF IsTrue(o.v[2]) THEN Ok(Bool(TRUE), o)
    ELSE Ok(Bool(FALSE), o)

And_Execute(s, st) ==
    LET o == Operands(s, st) IN
    IF o.k # "ok" THEN o
    ELSE IF IsTrue(o.v[1]) /\ IsTrue(o.v[2]) THEN Ok(Bool(TRUE), o)
    ELSE Ok(Bool(FALSE), o)

Not_Execute(s, st) ==
    IF IsNull(s.argument) THEN Throw("null operands are not supported", st)
    ELSE LET obj == Execute(s.argument, st) IN
         IF obj.k # "ok" THEN obj ELSE Ok(Bool(~IsTrue(obj.v)), obj)

Comparison_Execute(s, st) ==
    LET o == Operands(s, st) IN
    IF o.k # "ok" THEN o
    ELSE Comparator(s.cmp, o.v[1], o.v[2], StateOf(o))

\* A NewInstance that hands out an instance without fields at every
\* execution.
NewInstance_Execute_Fresh(s, st) ==
    LET args_values == ExecuteArgs(s.args, 1, <<>>, st)
        fresh == [StateOf(args_values) EXCEPT
                     !.heap[s.inst].fields = EmptyClosure]
    IN
    IF args_values.k # "ok" THEN args_values
    ELSE IF ClassInstance_HasMethod(s.cls, "__init__", Len(s.args))
         THEN LET r == ClassInstance_Call(s.inst, "__init__", args_values.v,
                                          fresh)
              IN  IF r.k # "ok" THEN r ELSE Ok(Instance(s.inst), r)
         ELSE Ok(Instance(s.inst), fresh)

NewInstance_Execute(s, st) ==
    LET args_values == ExecuteArgs(s.args, 1, <<>>, st) IN
    IF args_values.k # "ok" THEN args_values
    ELSE IF ClassInstance_HasMethod(s.cls, "__init__", Len(s.args))
         THEN LET r == ClassInstance_Call(s.inst, "__init__", args_values.v,
                                          StateOf(args_values))
              IN  IF r.k # "ok" THEN r ELSE Ok(Instance(s.inst), r)
         ELSE Ok(Instance(s.inst), args_values)

\* A MethodBody with no catch clause: the thrown ObjectHolder passes through.
MethodBody_Execute_NoCatch(s, st) == Execute(s.body, st)

\* A MethodBody whose catch (...) swallows the exception and returns None.
MethodBody_Execute_CatchAll(s, st) ==
    Ok(IF Execute(s.body, st).k = "return" THEN Execute(s.body, st).v ELSE None,
       Execute(s.body, st))

MethodBody_Execute(s, st) ==
    LET r == Execute(s.body, st) IN
    IF r.k = "ok" THEN Ok(None, r)
    ELSE IF r.k = "return" THEN Ok(r.v, r)
    ELSE r

\* Statement::Execute, by the kind of the node
Execute(s, st) ==
    CASE s.op = "Const" -> Const_Execute(s, st)
      [] s.op = "Assignment" -> Assignment_Execute(s, st)
      [] s.op = "VariableValue" -> VariableValue_Execute(s, st)
      [] s.op = "Print" -> Print_Execute(s, st)
      [] s.op = "MethodCall" -> MethodCall_Execute(s, st)
      [] s.op = "Stringify" -> Stringify_Execute(s, st)
      [] s.op = "Add" -> Add_Execute(s, st)
      [] s.op = "Sub" -> Sub_Execute(s, st)
      [] s.op = "Mult" -> Mult_Execute(s, st)
      [] s.op = "Div" -> Div_Execute(s, st)
      [] s.op = "Compound" -> Compound_Execute(s, st)
      [] s.op = "Return" -> Return_Execute(s, st)
      [] s.op = "ClassDefinition" -> ClassDefinition_Execute(s, st)
      [] s.op = "FieldAssignment" -> FieldAssignment_Execute(s, st)
      [] s.op = "IfElse" -> IfElse_Execute(s, st)
      [] s.op = "Or" -> Or_Execute(s, st)
      [] s.op = "And" -> And_Execute(s, st)
      [] s.op = "Not" -> Not_Execute(s, st)
      [] s.op = "Comparison" -> Comparison_Execute(s, st)
      [] s.op = "NewInstance" -> NewInstance_Execute(s, st)
      [] s.op = "MethodBody" -> MethodBody_Execute(s, st)

(***************************************************************************)
(* The top-level program: the driver executes top-level statements one     *)
(* after the other on the global closure, until one of them fails.         *)
(***************************************************************************)
MaxSteps == 3

\* The NewInstance nodes of the top level, with the class of each
TopInstances ==
    [id \in {"a1", "a2", "b1", "c1"} |->
        CASE id = "a1" -> "A" [] id = "a2" -> "A"
          [] id = "b1" -> "B" [] id = "c1" -> "C"]

\* ClassInstance::ClassInstance: no fields yet
NewHeap == [id \in DOMAIN TopInstances |->
               [cls |-> TopInstances[id], fields |-> EmptyClosure]]

TopNewInstances ==
    { Assignment("a", NewInstance("a1", "A", <<Num(1)>>)),
      Assignment("b", NewInstance("b1", "B", <<Num(1), Num(2)>>)),
      Assignment("c", NewInstance("c1", "C", <<>>)) }

TopAssignments ==
    { Assignment("x", Num(5)),
      Assignment("y", Num(7)),
      Assignment("x", Const(None)),
      Assignment("x", Var("a")),
      Assignment("x", MethodCall(Var("a"), "early", <<Const(Bool(TRUE))>>)) }

TopFieldAssignments ==
    { FieldAssignment(Var("x"), "w", Num(4)) }

TopMethodCalls ==
    { MethodCall(Var("x"), "set", <<Num(8)>>),
      MethodCall(Var("a"), "outer", <<>>),
      MethodCall(Var("c"), "set", <<Num(1)>>),
      MethodCall(Var("a"), "get", <<Num(1)>>) }
    \cup { MethodCall(Var("a"), "wrap", <<Num(k)>>) : k \in FailureKinds }

TopPrints ==
    { PrintStmt(<<Var("x")>>),
      PrintStmt(<<VariableValue(<<"a", "v">>), VariableValue(<<"x", "y">>)>>) }

EvalInit ==
    /\ globals = EmptyClosure
    /\ heap = NewHeap
    /\ output = <<>>
    /\ moved = {}
    /\ build \in Builds
    /\ outcome = [k |-> "ok", v |-> None]
    /\ last = NullStmt
    /\ used = {}
    /\ steps = 0

CurrentState == State(globals, heap, output, moved, build)

\* What a statement's execution leaves behind: the closure, the objects, the
\* output, and the value or the exception it ended with.
Effect(r) ==
    /\ globals' = r.clo
    /\ heap' = r.heap
    /\ output' = r.out
    /\ moved' = r.moved
    /\ outcome' = [k |-> r.k, v |-> r.v]

\* One top-level statement, executed to its end.
Run(s) ==
    /\ outcome.k = "ok"
    /\ Effect(Execute(s, CurrentState))
    /\ last' = s
    /\ UNCHANGED <<build, lexvars, classvars>>

\* The class definitions come first; the statements after them are counted.
TopStep(s) ==
    /\ moved = DOMAIN table
    /\ steps < MaxSteps
    /\ Run(s)
    /\ steps' = steps + 1

TopClassDefinition ==
    \E c \in DOMAIN table :
        /\ c \notin moved
        /\ table[c].parent \in moved \cup {"nullptr"}
        /\ Run(ClassDefinition(c))
        /\ UNCHANGED <<used, steps>>

TopNewInstance ==
    \E s \in TopNewInstances :
        /\ TopStep(s)
        /\ used' = used \cup {s.rv.inst}

TopAssignment == \E s \in TopAssignments : TopStep(s) /\ UNCHANGED used

TopFieldAssignment ==
    \E s \in TopFieldAssignments : TopStep(s) /\ UNCHANGED used

TopMethodCall == \E s \in TopMethodCalls : TopStep(s) /\ UNCHANGED used

TopPrint == \E s \in TopPrints : TopStep(s) /\ UNCHANGED used

EvalNext ==
    \/ TopClassDefinition
    \/ TopNewInstance
    \/ TopAssignment
    \/ TopFieldAssignment
    \/ TopMethodCall
    \/ TopPrint

(***************************************************************************)
(* Class construction: the classes of a single-inheritance chain are       *)
(* constructed parent first, and their methods looked up.                  *)
(***************************************************************************)
MaxDepth == 3

ChainNames == <<"K1", "K2", "K3", "K4", "K5">>
MethodPool == {"f", "g"}

\* The method lists a class of a chain may declare
Declarations ==
    { <<>>, <<Method("f", <<>>, MethodBody(Return(Num(1))))>>,
      <<Method("g", <<>>, MethodBody(Return(Num(2))))>>,
      <<Method("f", <<>>, MethodBody(Return(Num(1)))),
        Method("g", <<"p">>, MethodBody(Return(Var("p"))))>> }

\* K1 <- K2 <- ... <- Kn with the given method lists
Chain(decls) ==
    [c \in {ChainNames[i] : i \in 1..Len(decls)} |->
        LET i == CHOOSE j \in 1..Len(decls) : ChainNames[j] = c IN
        [name |-> c, methods |-> decls[i],
         parent |-> IF i = 1 THEN "nullptr" ELSE ChainNames[i - 1]]]

ChainTables ==
    {Chain(decls) : decls \in UNION {[1..n -> Declarations] : n \in 1..MaxDepth}}

NoQuery == [cls |-> "nullptr", name |-> "", found |-> nullptr]

ClassInit ==
    /\ table \in ChainTables
    /\ built = EmptyClosure
    /\ query = NoQuery

\* Class::Class for a class whose parent, if any, is constructed
Construct ==
    \E c \in DOMAIN table :
        /\ c \notin DOMAIN built
        /\ table[c].parent \in DOMAIN built \cup {"nullptr"}
        /\ built' = Bind(built, c, Class_Class(table, c))
        /\ UNCHANGED <<table, query, lexvars, evalvars>>

\* Class::GetMethod on a constructed class
Lookup ==
    \E c \in DOMAIN built, m \in MethodPool \cup {"h"} :
        /\ query' = [cls |-> c, name |-> m,
                     found |-> Class_GetMethod(built[c], m)]
        /\ UNCHANGED <<table, built, lexvars, evalvars>>

ClassNext == Construct \/ Lookup

(***************************************************************************)
(* Specifications                                                          *)
(***************************************************************************)
\* The lexer at work, no program being evaluated.
\* The classes of the program, all constructed
ProgramClasses ==
    /\ table = Classes
    /\ built = names_methods_
    /\ query = NoQuery

LexInit == LexerInit /\ EvalInit /\ build = Trapping /\ ProgramClasses
LexSpec == LexInit /\ [][LexerNext]_vars

\* The evaluator at work, on a program already lexed and parsed.
\* A lexer that has lexed the empty input
LexerDone ==
    /\ input = get(NewStream(<<>>), EOFC).s
    /\ tokens_ = <<Eof>>
    /\ space_count_ = 0
    /\ lpc = "done"
    /\ current_token_ = 0
    /\ NoCalls

\* The statements of the program at the top level have no int arithmetic:
\* builds that differ only on overflow or on INT_MIN / -1 run it alike, and
\* one of them stands for all.
ProgramBuilds ==
    {b \in Builds : b["overflow"] = "proceed" /\ b["divide"] = "trap"}

EvalSpecInit ==
    EvalInit /\ build \in ProgramBuilds /\ LexerDone /\ ProgramClasses
EvalSpec == EvalSpecInit /\ [][EvalNext]_vars

\* The construction of the classes of a chain
ClassSpecInit == ClassInit /\ LexerDone /\ EvalInit /\ build = Trapping
ClassSpec == ClassSpecInit /\ [][ClassNext]_vars

\* The cursor of a lexer at work, no program being evaluated.
CursorSpecInit == CursorInit /\ EvalInit /\ build = Trapping /\ ProgramClasses
CursorSpec == CursorSpecInit /\ [][CursorNext]_vars

Spec == EvalSpec

(***************************************************************************)
(* Token-stream observations                                               *)
(***************************************************************************)
Count(toks, tok) == Cardinality({i \in 1..Len(toks) : toks[i] = tok})

\* C1: when lexing completes, the token stream ends with exactly one Eof,
\* its last token, and the token before Eof is Newline or Dedent unless the
\* stream is Eof alone.
C1_EofTermination ==
    lpc = "done" =>
        /\ tokens_ # <<>>
        /\ Last(tokens_) = Eof
        /\ Count(tokens_, Eof) = 1
        /\ \/ Len(tokens_) = 1
           \/ tokens_[Len(tokens_) - 1] \in {Newline, Dedent}

\* A completed lexing whose stream is closed by a Dedent emitted at the end
\* of input, after a line that was indented.
C1_Witness ==
    /\ lpc = "done"
    /\ Len(tokens_) >= 4
    /\ tokens_[Len(tokens_) - 1] = Dedent
    /\ Count(tokens_, Indent) = 1

\* C2: when lexing completes, the stream holds as many Indent tokens as
\* Dedent tokens.
C2_IndentDedentBalance ==
    lpc = "done" => Count(tokens_, Indent) = Count(tokens_, Dedent)

\* C12: on a stream t0..tn with tn = Eof the cursor stays inside the
\* stream: CurrentToken is t0 at first, the k-th NextToken returns tk and
\* makes it current for k <= n, and every later call returns Eof and leaves
\* Eof current.
C12_CursorStaysInside ==
    lpc = "done" =>
        LET n == Len(tokens_) - 1 IN
        /\ current_token_ \in 0..n
        /\ tokens_[n + 1] = Eof
        /\ calls = 0 => Lexer_CurrentToken(tokens_, current_token_) = tokens_[1]
        /\ (calls >= 1 /\ calls <= n)
           => /\ returned = tokens_[calls + 1]
              /\ Lexer_CurrentToken(tokens_, current_token_) = tokens_[calls + 1]
        /\ calls > n
           => /\ returned = Eof
              /\ Lexer_CurrentToken(tokens_, current_token_) = Eof
              /\ current_token_ = n

\* NextToken has been called twice more than the stream has tokens to
\* advance over.
C12_Witness ==
    /\ lpc = "done"
    /\ Len(tokens_) >= 4
    /\ calls = Len(tokens_) + 1
    /\ returned = Eof

Quotes == {"'", "\""}

RECURSIVE NoClosing(_, _, _)
\* No unescaped quote q in buf from position i on: a literal opened by q
\* just before i is never closed.
NoClosing(buf, i, q) ==
    IF i > Len(buf) THEN TRUE
    ELSE IF buf[i] = q THEN FALSE
    ELSE IF buf[i] = "\\" THEN NoClosing(buf, i + 2, q)
    ELSE NoClosing(buf, i + 1, q)

\* The lexer is about to run a turn of its loop on a readable stream.
AtTurn == lpc = "loop" /\ get(input, EOFC).ok

\* C24: every turn of the loop of ParseTokens consumes at least one
\* character of the input or fails, so that the loop ends on every finite
\* input.
C24_EveryTurnConsumes ==
    AtTurn =>
        \A u1 \in Indeterminate, u2 \in Indeterminate :
            LET r == LoopBody(input, tokens_, space_count_, u1, u2) IN
            r.thrown \/ r.s.pos > input.pos

\* C11: when ParseStrings meets an opening quote that no unescaped quote of
\* the same kind follows before the end of input, lexing fails and no String
\* token is appended for that literal.
C11_UnterminatedStringFails ==
    AtTurn =>
        \A u \in Indeterminate :
            LET n == ParseNewLine(input, tokens_, space_count_, u)
                p == peek(n.s)
                r == ParseStrings(n.s, n.toks, n.sc)
            IN  (~n.thrown /\ p.c \in Quotes
                    /\ NoClosing(input.buf, n.s.pos + 2, p.c))
                => (r.thrown /\ r.toks = n.toks)

\* C13: no Id token carries a keyword; a word equal to a keyword lexes to
\* the keyword's token, and a keyword followed by a letter or a digit lexes
\* to one Id.
C13_KeywordsAreNeverIds ==
    /\ \A i \in 1..Len(tokens_) :
          tokens_[i].type = "Id" => tokens_[i].value \notin DOMAIN keywords_
    /\ lpc = "done" =>
          /\ input.buf \in DOMAIN keywords_
             => tokens_ = <<keywords_[input.buf], Newline, Eof>>
          /\ \A w \in DOMAIN keywords_, c \in {"a", "1"} :
                input.buf = Append(w, c)
                => tokens_ = <<TokV("Id", input.buf), Newline, Eof>>

\* "if a" has been lexed: a keyword token, then an Id.
C13_Witness ==
    /\ lpc = "done"
    /\ input.buf = <<"i", "f", " ", "a">>
    /\ tokens_ = <<Tok("If"), TokV("Id", <<"a">>), Newline, Eof>>

RECURSIVE SpacesFrom(_, _)
\* The number of spaces of buf from position i on
SpacesFrom(buf, i) ==
    IF i <= Len(buf) /\ buf[i] = " " THEN 1 + SpacesFrom(buf, i + 1) ELSE 0

CharAt(buf, i) == IF i <= Len(buf) THEN buf[i] ELSE EOFC

\* The tokens once the Newline of a newline character is accounted for
WithNewline(toks) ==
    IF toks # <<>> /\ Last(toks) # Newline THEN Append(toks, Newline) ELSE toks

\* C18: on a newline, with c the indent counter and s the leading spaces of
\* the next line: a next line that ends at once (newline or end of input) or
\* starts with '#' emits nothing and leaves c; otherwise |(s - c) / 2|
\* tokens are emitted, Indent for a positive quotient and Dedent for a
\* negative one, and c becomes s.
C18_IndentArithmetic ==
    (AtTurn /\ peek(input).c = "\n") =>
        \A u \in Indeterminate :
            LET r == ParseNewLine(input, tokens_, space_count_, u)
                s == SpacesFrom(input.buf, input.pos + 2)
                first == CharAt(input.buf, input.pos + 2 + s)
                q == TruncDiv(s - space_count_, 2)
            IN  IF first \in {"\n", EOFC, "#"}
                THEN /\ r.toks = WithNewline(tokens_)
                     /\ r.sc = space_count_
                ELSE /\ r.toks = WithNewline(tokens_)
                                   \o Repeat(IF q > 0 THEN Indent ELSE Dedent,
                                             Abs(q))
                     /\ r.sc = s

\* C18 as the code has it: the end of input after the spaces does not count
\* as an empty line.  A next line that starts, after its spaces, with a
\* newline or '#' emits nothing and leaves c; in every other case, the end
\* of input included, |(s - c) / 2| tokens are emitted, Indent for a
\* positive quotient and Dedent for a negative one, and c becomes s.
C18_IndentArithmeticToEnd ==
    (AtTurn /\ peek(input).c = "\n") =>
        \A u \in Indeterminate :
            LET r == ParseNewLine(input, tokens_, space_count_, u)
                s == SpacesFrom(input.buf, input.pos + 2)
                first == CharAt(input.buf, input.pos + 2 + s)
                q == TruncDiv(s - space_count_, 2)
            IN  IF first \in {"\n", "#"}
                THEN /\ r.toks = WithNewline(tokens_)
                     /\ r.sc = space_count_
                ELSE /\ r.toks = WithNewline(tokens_)
                                   \o Repeat(IF q > 0 THEN Indent ELSE Dedent,
                                             Abs(q))
                     /\ r.sc = s

\* An indented line followed by a newline that ends the input has been
\* lexed: the newline at the end of input closed the indentation.
C18_Witness ==
    /\ lpc = "done"
    /\ input.buf = <<"\n", " ", " ", "a", "\n">>
    /\ tokens_ = <<Indent, TokV("Id", <<"a">>), Newline, Dedent, Eof>>
    /\ space_count_ = 0

\* C19: a newline character adds a Newline token exactly when a token has
\* been emitted and the last one is not Newline; so no two adjacent tokens
\* are both Newline and the first token is never Newline.
C19_NewlineCollapse ==
    /\ \A i \in 1..(Len(tokens_) - 1) :
          ~(tokens_[i] = Newline /\ tokens_[i + 1] = Newline)
    /\ tokens_ # <<>> => tokens_[1] # Newline
    /\ (AtTurn /\ peek(input).c = "\n") =>
          \A u \in Indeterminate :
              Count(ParseNewLine(input, tokens_, space_count_, u).toks, Newline)
                  = Count(WithNewline(tokens_), Newline)

\* A text with a blank line between two lines has been lexed: two newline
\* characters in a row gave one Newline.
C19_Witness ==
    /\ lpc = "done"
    /\ input.buf = <<"a", "\n", "\n", "a", "\n">>
    /\ Count(tokens_, Newline) = 2

\* C20: a quote outside a literal and outside a comment starts a literal
\* whatever precedes it: no Char token carries a quote.
C20_QuoteNeverChar ==
    \A i \in 1..Len(tokens_) :
        tokens_[i].type = "Char" => tokens_[i].value \notin Quotes

(***************************************************************************)
(* Evaluator observations.  The statements below are evaluated from the    *)
(* state the program has reached, inside a method of an instance it has    *)
(* created (MethodState) or at the top level (CurrentState).               *)
(***************************************************************************)
\* The state at the start of a body called on the instance id.
MethodState(id) ==
    State(Bind(EmptyClosure, "self", Instance(id)), heap, output, moved, build)

Line(n) == NumberChars(n) \o <<"\n">>

\* Statements that come before the statement of interest in a body.
Before ==
    { <<>>,
      <<SetSelf("z", Num(6)), PrintStmt(<<Str(<<"p">>)>>), Assignment("t", Num(1))>> }

\* Statements that come after it; each leaves a trace when executed.
After ==
    { <<SetSelf("z", Num(9))>>,
      <<PrintStmt(<<Str(<<"q">>)>>), Return(Num(0))>> }

ReturnedExprs ==
    { Num(42), MethodCall(Var("self"), "me", <<>>) }

\* A statement s placed directly in the body, or nested in Compound/IfElse.
Nested(n, s) ==
    CASE n = 1 -> s
      [] n = 2 -> Compound(<<s>>)
      [] n = 3 -> IfElse(Const(Bool(TRUE)), s, NullStmt)
      [] n = 4 -> IfElse(Const(None), SetSelf("z", Num(8)),
                         Compound(<<s, SetSelf("z", Num(7))>>))
      [] n = 5 -> Compound(<<IfElse(Num(1),
                                    Compound(<<Compound(<<s>>),
                                               SetSelf("z", Num(7))>>),
                                    NullStmt),
                             SetSelf("z", Num(5))>>)

Nestings == 1..5

\* C3: a Return(e) executed anywhere inside a method body ends the body at
\* once with the value of e: the body's result is the state and value
\* reached by the statements before it and e, whatever follows it; and a
\* return in a callee ends only the callee, the caller goes on with the
\* statements after the call.
C3_ReturnExitsMethodBody ==
    /\ \A id \in used, pre \in Before, e \in ReturnedExprs, post \in After,
          n \in Nestings :
          LET st == MethodState(id)
              p == Execute(Compound(pre), st)
              v == Execute(e, StateOf(p))
              r == Execute(MethodBody(Compound(pre \o <<Nested(n, Return(e))>>
                                               \o post)), st)
          IN  (p.k = "ok" /\ v.k = "ok") => r = Ok(v.v, StateOf(v))
    /\ \A id \in used :
          LET g == ClassInstance_Call(id, "get", <<>>, CurrentState)
              r == ClassInstance_Call(id, "outer", <<>>, CurrentState)
          IN  (ClassInstance_HasMethod(heap[id].cls, "outer", 0) /\ g.k = "ok")
              => /\ r.k = "ok"
                 /\ r.v = String(<<"o", "u", "t", "e", "r">>)
                 /\ r.heap = [heap EXCEPT ![id].fields = Bind(@, "w", g.v)]
                 /\ r.out = output
                 /\ r.clo = globals
    /\ (/\ last = Assignment("x", MethodCall(Var("a"), "early",
                                             <<Const(Bool(TRUE))>>))
        /\ outcome.k = "ok")
       => /\ globals["x"] = String(<<"t", "h", "e", "n">>)
          /\ heap["a1"].fields["w"] = Number(1)

\* The program called a.early(True): the return inside the if ended the body.
C3_Witness ==
    /\ last = Assignment("x", MethodCall(Var("a"), "early", <<Const(Bool(TRUE))>>))
    /\ outcome.k = "ok"
    /\ "a1" \in used
    /\ "w" \in DOMAIN heap["a1"].fields

\* The message of the failure number k
FailureMessage(k) ==
    CASE k = 1 -> "Invalid argument name"
      [] k = 2 -> "Wrong types for add operation"
      [] k = 3 -> "Not implemented"
      [] k = 4 -> "Division by zero"
      [] k = 5 -> "null operands are not supported"

WrapCalls == {MethodCall(Var("a"), "wrap", <<Num(k)>>) : k \in FailureKinds}

\* C4: a failure other than the Return exit raised inside a method body
\* passes through MethodBody, through every enclosing body and statement,
\* up to the top-level evaluation; what was assigned and written before it
\* stays.
C4_FailurePropagates ==
    /\ \A id \in used, pre \in Before, k \in FailureKinds, post \in After :
          LET st == MethodState(id)
              p == Execute(Compound(pre), st)
              r == Execute(MethodBody(Compound(pre \o <<Failure(k)>> \o post)),
                           st)
          IN  p.k = "ok" => r = Throw(FailureMessage(k), StateOf(p))
    /\ \A id \in used, k \in FailureKinds :
          LET r == ClassInstance_Call(id, "wrap", <<Number(k)>>, CurrentState) IN
          ClassInstance_HasMethod(heap[id].cls, "wrap", 1)
          => r = Throw(FailureMessage(k),
                       [CurrentState EXCEPT
                           !.heap[id].fields =
                               Bind(Bind(@, "u", Number(1)), "w", Number(1)),
                           !.out = @ \o <<"b", "\n">>])
    /\ (last \in WrapCalls /\ "a" \in DOMAIN globals)
       => /\ outcome = [k |-> "error",
                        v |-> RuntimeError(FailureMessage(last.args[1].v.v))]
          /\ heap["a1"].fields["u"] = Number(1)
          /\ heap["a1"].fields["w"] = Number(1)
          /\ SubSeq(output, Len(output) - 1, Len(output)) = <<"b", "\n">>

\* The program called a.wrap(k) on its instance and the failure inside
\* bad(k) reached the top level.
C4_Witness ==
    /\ last \in WrapCalls
    /\ "a" \in DOMAIN globals
    /\ outcome.k = "error"
    /\ outcome.v = RuntimeError("Division by zero")

\* The state the statements pre of Before leave when run on the instance id
\* from the state st.
Left(pre, id, st) ==
    IF pre = <<>> THEN st
    ELSE [st EXCEPT !.heap[id].fields = Bind(@, "z", Number(6)),
                    !.out = @ \o <<"p", "\n">>,
                    !.clo = Bind(@, "t", Number(1))]

\* Statements that only work in list order, the last one yielding a value.
Ordered ==
    << Assignment("t", Num(1)),
       Assignment("t", Add(Var("t"), Num(1))),
       SetSelf("z", Var("t")),
       PrintStmt(<<Var("t")>>),
       Mult(Var("t"), Num(4)) >>

\* C21: Compound executes its sub-statements in list order and yields None
\* whatever they yield; when sub-statement i fails or performs a Return
\* exit the sub-statements after it are not executed, and the bindings,
\* field assignments and output of the sub-statements before it remain.
C21_CompoundInOrder ==
    /\ \A id \in used :
          LET st == MethodState(id) IN
          /\ Execute(Compound(<<>>), st) = Ok(None, st)
          /\ Execute(Compound(<<Num(42)>>), st) = Ok(None, st)
          /\ Execute(Compound(Ordered), st)
               = Ok(None, [st EXCEPT !.heap[id].fields = Bind(@, "z", Number(2)),
                                     !.out = @ \o <<"2", "\n">>,
                                     !.clo = Bind(@, "t", Number(2))])
    /\ \A id \in used, pre \in Before, k \in FailureKinds, post \in After :
          LET st == MethodState(id) IN
          Execute(Compound(pre \o <<Failure(k)>> \o post), st)
              = Throw(FailureMessage(k), Left(pre, id, st))
    /\ \A id \in used, pre \in Before, e \in ReturnedExprs, post \in After :
          LET st == MethodState(id)
              v == Execute(e, Left(pre, id, st))
          IN  /\ e = Num(42) => v = Ok(Number(42), Left(pre, id, st))
              /\ v.k = "ok"
                 => Execute(Compound(pre \o <<Return(e)>> \o post), st)
                        = Result("return", v.v, StateOf(v))
    /\ (last = MethodCall(Var("a"), "outer", <<>>) /\ outcome.k = "ok")
       => /\ "w" \in DOMAIN heap["a1"].fields
          /\ heap["a1"].fields["w"] = heap["a1"].fields["v"]
          /\ "x" \in DOMAIN globals => globals["x"] # String(<<"o", "u", "t", "e", "r">>)

\* The program called a.outer(), whose body is a Compound of three
\* statements each using what the one before it did.
C21_Witness ==
    /\ last = MethodCall(Var("a"), "outer", <<>>)
    /\ outcome.k = "ok"
    /\ "a1" \in used
    /\ "w" \in DOMAIN heap["a1"].fields
    /\ heap["a1"].fields["w"] = heap["a1"].fields["v"]

\* The state inside a method of the instance id whose closure also binds
\* x and y.
CallerState(id) ==
    [MethodState(id) EXCEPT !.clo = Bind(Bind(@, "x", Number(5)), "y", Number(7))]

\* C22: a method body runs in a closure of its own that starts with self
\* and the formal parameters bound to the actual arguments in order.  The
\* caller's closure is after the call what it was before it, a name bound
\* only in the caller's closure is unknown inside the body, and what one
\* call bound is unknown to the next call of the same method.
C22_FreshClosurePerCall ==
    /\ \A id \in used : \A st \in {CurrentState, CallerState(id)} :
          LET k1 == ClassInstance_Call(id, "keep", <<Bool(TRUE)>>, st)
              k2 == ClassInstance_Call(id, "keep", <<Bool(FALSE)>>, StateOf(k1))
              y == ClassInstance_Call(id, "reach", <<>>, st)
              two == ClassInstance_Call(id, "two", <<Number(8), Number(9)>>, st)
              me == ClassInstance_Call(id, "me", <<>>, st)
          IN  ClassInstance_HasMethod(heap[id].cls, "keep", 1)
              => /\ k1 = Ok(Number(1), st)
                 /\ k2 = Throw("Invalid argument name", st)
                 /\ y = Throw("Invalid argument name", st)
                 /\ two = Ok(Number(8), st)
                 /\ me = Ok(Instance(id), Write(st, <<"r", "\n">>))
    /\ \A id \in used :
          LET st == CallerState(id) IN
          ClassInstance_HasMethod(heap[id].cls, "keep", 1)
          => /\ Execute(Assignment("z", MethodCall(Var("self"), "keep",
                                                   <<Const(Bool(TRUE))>>)), st)
                  = Ok(Number(1), [st EXCEPT !.clo = Bind(@, "z", Number(1))])
             /\ Execute(MethodCall(Var("self"), "keep", <<Var("x")>>), st)
                  = Ok(Number(1), st)
             /\ Execute(MethodCall(Var("self"), "reach", <<>>), st)
                  = Throw("Invalid argument name", st)
    /\ (/\ last = MethodCall(Var("a"), "outer", <<>>)
        /\ outcome.k = "ok"
        /\ "x" \in DOMAIN globals)
       => /\ "v" \in DOMAIN heap["a1"].fields
          /\ globals["x"] # heap["a1"].fields["v"]
          /\ "self" \notin DOMAIN globals

\* The program bound x at the top level and called a.outer(), whose body
\* assigns a variable x of its own.
C22_Witness ==
    /\ last = MethodCall(Var("a"), "outer", <<>>)
    /\ outcome.k = "ok"
    /\ "x" \in DOMAIN globals
    /\ globals["x"] = Number(5)
    /\ heap["a1"].fields["w"] = Number(1)

\* The fields the __init__ found for the node of the instance id writes.
Initialised(id, fields) ==
    CASE id = "a1" -> Bind(fields, "v", Number(1))
      [] id = "b1" -> Bind(Bind(fields, "v", Number(1)), "w", Number(2))
      [] OTHER -> fields

\* A second statement of the program that creates an instance of A.
OtherA == Assignment("d", NewInstance("a2", "A", <<Num(2)>>))

\* C23: every execution of one NewInstance statement yields the same
\* instance, whose fields are not reset: the fields set since an earlier
\* execution are still there and __init__ overwrites the ones it assigns;
\* two NewInstance statements of one class yield instances whose fields are
\* independent.
C23_InstancePerNode ==
    /\ \A s \in TopNewInstances :
          LET id == s.rv.inst
              r == Execute(s, CurrentState)
          IN  id \in used
              => /\ r = Ok(Instance(id),
                           [CurrentState EXCEPT
                               !.clo = Bind(@, s.var, Instance(id)),
                               !.heap[id].fields = Initialised(id, @)])
                 /\ DOMAIN heap[id].fields \subseteq DOMAIN r.heap[id].fields
                 /\ s.var \in DOMAIN globals
                 /\ r.clo = globals
    /\ LET r == Execute(OtherA, CurrentState)
           w == Execute(FieldAssignment(Var("d"), "w", Num(4)), StateOf(r))
           v == Execute(MethodCall(Var("a"), "set", <<Num(9)>>), StateOf(w))
       IN  /\ heap["a2"].fields = EmptyClosure
           /\ r = Ok(Instance("a2"),
                     [CurrentState EXCEPT
                         !.clo = Bind(@, "d", Instance("a2")),
                         !.heap["a2"].fields = Bind(@, "v", Number(2))])
           /\ w.k = "ok"
           /\ w.heap = [r.heap EXCEPT !["a2"].fields = Bind(@, "w", Number(4))]
           /\ "a1" \in used
              => /\ v.k = "ok"
                 /\ v.heap = [w.heap EXCEPT !["a1"].fields = Bind(@, "v", Number(9))]
                 /\ r.clo["a"] # r.clo["d"]
    /\ (last \in TopNewInstances /\ outcome.k = "ok")
       => /\ globals[last.var] = Instance(last.rv.inst)
          /\ heap[last.rv.inst].fields
                 = Initialised(last.rv.inst, heap[last.rv.inst].fields)

\* The program executed a = A(1) again after a method call had set the
\* field w of the instance and another had changed its field v.
C23_Witness ==
    /\ last = Assignment("a", NewInstance("a1", "A", <<Num(1)>>))
    /\ outcome.k = "ok"
    /\ "w" \in DOMAIN heap["a1"].fields
    /\ heap["a1"].fields["v"] = Number(1)

\* self.say(n): writes n, assigns self.log and yields n
Say(n) == MethodCall(Var("self"), "say", <<Num(n)>>)

BinaryOps == {"Add", "Sub", "Mult", "Div", "Or", "And"}
Comparators ==
    {"Equal", "Less", "NotEqual", "Greater", "LessOrEqual", "GreaterOrEqual"}

\* C5: operands are evaluated left to right: the output and the field
\* assignment of an earlier operand come before those of a later one in
\* Print (which writes each argument before evaluating the next), in
\* MethodCall (receiver, then arguments), in NewInstance and in every binary
\* operator.
C5_LeftToRight ==
    \A id \in used, x \in 1..2, y \in 1..2 :
        (x # y /\ ClassInstance_HasMethod(heap[id].cls, "say", 1)) =>
        LET st == MethodState(id)
            pr == Execute(PrintStmt(<<Say(x), Say(y)>>), st)
            mc == Execute(MethodCall(MethodCall(Var("self"), "me", <<>>), "two",
                                     <<Say(x), Say(y)>>), st)
            ni == Execute(NewInstance("b1", "B", <<Say(x), Say(y)>>), st)
        IN  /\ pr.k = "ok"
            /\ pr.out = output \o Line(x) \o NumberChars(x) \o <<" ">>
                               \o Line(y) \o NumberChars(y) \o <<"\n">>
            /\ pr.heap[id].fields["log"] = Number(y)
            /\ mc.k = "ok"
            /\ mc.v = Number(x)
            /\ mc.out = output \o <<"r", "\n">> \o Line(x) \o Line(y)
            /\ mc.heap[id].fields["log"] = Number(y)
            /\ ni.k = "ok"
            /\ ni.out = output \o Line(x) \o Line(y)
            /\ ni.heap[id].fields["log"] = Number(y)
            /\ ni.heap["b1"].fields["v"] = Number(x)
            /\ ni.heap["b1"].fields["w"] = Number(y)
            /\ \A op \in BinaryOps :
                  LET r == Execute(BinaryOperation(op, Say(x), Say(y)), st) IN
                  /\ r.k = "ok"
                  /\ r.out = output \o Line(x) \o Line(y)
                  /\ r.heap[id].fields["log"] = Number(y)
            /\ \A cmp \in Comparators :
                  LET r == Execute(Comparison(cmp, Say(x), Say(y)), st) IN
                  /\ r.k = "ok"
                  /\ r.out = output \o Line(x) \o Line(y)
                  /\ r.heap[id].fields["log"] = Number(y)

\* The program has created an instance whose class has say, and has
\* already written output.
C5_Witness ==
    /\ \E id \in used : ClassInstance_HasMethod(heap[id].cls, "say", 1)
    /\ output # <<>>

\* Holders of every kind: values, a class, the instances created so far
Holders ==
    { None, Bool(TRUE), Bool(FALSE), Number(0), Number(5), Number(-1),
      String(<<>>), String(<<"a">>), String(<<"a", "b">>), String(<<"b">>),
      Class("A") }
    \cup {Instance(id) : id \in used}

\* Truthiness as specified
Truth(h) ==
    CASE h.t = "None" -> FALSE
      [] h.t = "Bool" -> h.v
      [] h.t = "Number" -> h.v # 0
      [] h.t = "String" -> Len(h.v) > 0
      [] h.t \in {"Class", "Instance"} -> FALSE

\* C14: truthiness is false for the empty holder, the value of a Bool,
\* nonzero for a Number, non-empty for a String, false for an instance and
\* for a class; IfElse, And, Or and Not decide by it.
C14_Truthiness ==
    \A h \in Holders :
        /\ IsTrue(h) = Truth(h)
        /\ Execute(IfElse(Const(h), Num(1), Num(2)), CurrentState)
              = Ok(Number(IF Truth(h) THEN 1 ELSE 2), CurrentState)
        /\ Execute(IfElse(Const(h), Num(1), NullStmt), CurrentState)
              = Ok(IF Truth(h) THEN Number(1) ELSE None, CurrentState)
        /\ Execute(Not(Const(h)), CurrentState)
              = Ok(Bool(~Truth(h)), CurrentState)
        /\ \A g \in Holders :
              /\ Execute(And(Const(h), Const(g)), CurrentState)
                    = Ok(Bool(Truth(h) /\ Truth(g)), CurrentState)
              /\ Execute(Or(Const(h), Const(g)), CurrentState)
                    = Ok(Bool(Truth(h) \/ Truth(g)), CurrentState)

\* The program has created an instance and bound a number: holders of both
\* kinds are in its closure.
C14_Witness ==
    /\ \E n \in DOMAIN globals : globals[n].t = "Instance"
    /\ \E n \in DOMAIN globals : globals[n].t = "Number"

\* C15: And(a, b) and Or(a, b) evaluate a and then b, each once, whatever
\* the truthiness of a, and yield the Bool truth(a) and truth(b),
\* respectively truth(a) or truth(b).
C15_NoShortCircuit ==
    \A id \in used, x \in 0..1, y \in 0..1 :
        ClassInstance_HasMethod(heap[id].cls, "say", 1) =>
        LET st == MethodState(id)
            both == [st EXCEPT !.out = @ \o Line(x) \o Line(y),
                               !.heap[id].fields = Bind(@, "log", Number(y))]
        IN  /\ Execute(And(Say(x), Say(y)), st)
                  = Ok(Bool(x # 0 /\ y # 0), both)
            /\ Execute(Or(Say(x), Say(y)), st)
                  = Ok(Bool(x # 0 \/ y # 0), both)

\* The program has created the instance of A, whose class has say, and
\* its constructor has run.
C15_Witness ==
    /\ "a1" \in used
    /\ ClassInstance_HasMethod(heap["a1"].cls, "say", 1)
    /\ "v" \in DOMAIN heap["a1"].fields

\* The natural order of the values of one type
Rank(h) ==
    CASE h.t = "Number" -> h.v
      [] h.t = "Bool" -> IF h.v THEN 1 ELSE 0
      [] h = String(<<>>) -> 0
      [] h = String(<<"a">>) -> 1
      [] h = String(<<"a", "b">>) -> 2
      [] h = String(<<"b">>) -> 3

SameValueType(l, r) == l.t = r.t /\ l.t \in {"Number", "String", "Bool"}

HasComparison(h, method) ==
    /\ h.t = "Instance"
    /\ ClassInstance_HasMethod(heap[h.v].cls, method, 1)

\* C16: on two Numbers, two Strings or two Bools equal and less compare by
\* value and natural order, and not-equal = not equal, greater = not less
\* and not equal, less-or-equal = not greater, greater-or-equal = not less;
\* two empty holders are equal; any other pair fails unless lhs is an
\* instance with __eq__ (for equal) or __lt__ (for less) of one parameter.
C16_Comparisons ==
    \A l \in Holders, r \in Holders :
        LET eq == Equal(l, r, CurrentState)
            lt == Less(l, r, CurrentState)
        IN  /\ SameValueType(l, r) =>
                  /\ eq = Ok(Bool(l.v = r.v), CurrentState)
                  /\ lt = Ok(Bool(Rank(l) < Rank(r)), CurrentState)
                  /\ NotEqual(l, r, CurrentState)
                        = Ok(Bool(~eq.v.v), CurrentState)
                  /\ Greater(l, r, CurrentState)
                        = Ok(Bool(~lt.v.v /\ ~eq.v.v), CurrentState)
                  /\ LessOrEqual(l, r, CurrentState)
                        = Ok(Bool(~(~lt.v.v /\ ~eq.v.v)), CurrentState)
                  /\ GreaterOrEqual(l, r, CurrentState)
                        = Ok(Bool(~lt.v.v), CurrentState)
            /\ (l = None /\ r = None) => eq = Ok(Bool(TRUE), CurrentState)
            /\ (/\ ~SameValueType(l, r)
                /\ ~(l = None /\ r = None)
                /\ ~HasComparison(l, "__eq__"))
               => /\ eq.k = "error"
                  /\ Execute(Comparison("Equal", Const(l), Const(r)),
                             CurrentState).k = "error"
            /\ (~SameValueType(l, r) /\ ~HasComparison(l, "__lt__"))
               => /\ lt.k = "error"
                  /\ Execute(Comparison("Less", Const(l), Const(r)),
                             CurrentState).k = "error"

\* The program has created the instance of C, whose class has __eq__, and
\* the instance of A, whose class has not.
C16_Witness ==
    /\ "c1" \in used
    /\ HasComparison(Instance("c1"), "__eq__")
    /\ "a1" \in used
    /\ ~HasComparison(Instance("a1"), "__eq__")

\* C17: printing the String that Stringify(x) yields writes the bytes that
\* printing x writes, from the same state; an instance whose __str__ itself
\* prints writes what the body printed, then the string it returned.
C17_StringifyPrintsTheSame ==
    /\ \A h \in Holders :
          LET direct == Execute(PrintStmt(<<Const(h)>>), CurrentState)
              str == Execute(PrintStmt(<<Stringify(Const(h))>>), CurrentState)
          IN  /\ direct.k = "ok"
              /\ str.k = "ok"
              /\ str.out = direct.out
              /\ Len(direct.out) >= Len(output) + 1
    /\ "c1" \in used
       => Execute(PrintStmt(<<Stringify(Const(Instance("c1")))>>),
                  CurrentState).out
             = output \o <<"s", "\n", "c", "\n">>

\* The program has bound c to the instance of C, whose __str__ prints.
C17_Witness ==
    /\ "c1" \in used
    /\ "c" \in DOMAIN globals
    /\ ClassInstance_HasMethod(heap["c1"].cls, "__str__", 0)

MethodNames ==
    UNION {{Classes[c].methods[i].name : i \in 1..Len(Classes[c].methods)} :
              c \in DOMAIN Classes}
    \cup {"nosuch"}

(***************************************************************************)
(* Class observations                                                      *)
(***************************************************************************)
RECURSIVE Nearest(_, _, _)
\* The declaration of m by the nearest class of the chain c, parent of c,
\* grandparent, ...; nullptr when no class of the chain declares m.
Nearest(tbl, c, m) ==
    IF c = "nullptr" THEN nullptr
    ELSE LET own == {i \in 1..Len(tbl[c].methods) : tbl[c].methods[i].name = m}
         IN  IF own # {}
             THEN MethodPtr(c, CHOOSE i \in own : \A j \in own : j <= i)
             ELSE Nearest(tbl, tbl[c].parent, m)

\* C6: in a chain of any depth the index of a class is its parent's
\* flattened index overridden by its own methods, and get_method(m) is the
\* declaration of m by the nearest class of the chain that declares it.
C6_FlattenedIndex ==
    /\ \A c \in DOMAIN built, m \in MethodPool :
          Class_GetMethod(built[c], m) = Nearest(table, c, m)
    /\ query.cls # "nullptr" => query.found = Nearest(table, query.cls, query.name)

\* The actual arguments of a call with n arguments
Actuals(n) == SubSeq(<<Number(8), Number(9)>>, 1, n)

\* C7: a call of method m with n arguments on an instance runs the body of
\* the method its class resolves m to when that method exists and has
\* exactly n formal parameters; otherwise it fails with "Not implemented",
\* no body executed, no field changed.
C7_DispatchByNameAndArity ==
    /\ \A id \in used, m \in MethodNames, n \in 0..2 :
          LET r == ClassInstance_Call(id, m, Actuals(n), CurrentState)
              method_ptr == GetMethod(heap[id].cls, m)
          IN  IF /\ method_ptr # nullptr
                 /\ Len(Deref(method_ptr).formal_params) = n
              THEN r = WithClosure(
                          Execute(Deref(method_ptr).body,
                                  [CurrentState EXCEPT !.clo =
                                      BindParams(Bind(EmptyClosure, "self",
                                                      Instance(id)),
                                                 Deref(method_ptr).formal_params,
                                                 Actuals(n), 1)]),
                          globals)
              ELSE r = Throw("Not implemented", CurrentState)
    /\ \A id \in used :
          LET r == ClassInstance_Call(id, "set", Actuals(1), CurrentState) IN
          IF GetMethod(heap[id].cls, "set") # nullptr
          THEN /\ r.k = "ok"
               /\ r.heap = [heap EXCEPT ![id].fields = Bind(@, "v", Number(8))]
          ELSE r = Throw("Not implemented", CurrentState)
    /\ last = MethodCall(Var("a"), "get", <<Num(1)>>) /\ "a" \in DOMAIN globals
       => outcome = [k |-> "error", v |-> RuntimeError("Not implemented")]

\* The program called a.get(1) on its instance: get exists with no parameter.
C7_Witness ==
    /\ last = MethodCall(Var("a"), "get", <<Num(1)>>)
    /\ "a1" \in used
    /\ outcome.k = "error"
    /\ "v" \in DOMAIN heap["a1"].fields

\* The names bound in the top-level closure to a value of one of the types
BoundTo(types) == {n \in DOMAIN globals : globals[n].t \in types}

\* C8: a MethodCall whose receiver evaluates to None yields None, nothing
\* called, nothing failing; a receiver that is neither None nor a
\* ClassInstance makes the call fail.
C8_ReceiverNoneOrRejected ==
    /\ \A recv \in {Const(None)} \cup {Var(n) : n \in BoundTo({"None"})} :
          Execute(MethodCall(recv, "set", <<Num(8)>>), CurrentState)
              = Ok(None, CurrentState)
    /\ \A n \in BoundTo({"Number", "String", "Bool", "Class"}) :
          Execute(MethodCall(Var(n), "set", <<Num(8)>>), CurrentState).k
              = "error"

FieldNames == {"v", "w", "u", "x", "y", "a"}

\* C9: in a dotted name v0.v1, v1 is looked up only in the fields of the
\* instance v0 resolved to; when v0 is not an instance, or v1 is not one of
\* its fields, the evaluation fails.
C9_DottedLookupInFieldsOnly ==
    \A v0 \in DOMAIN globals, v1 \in FieldNames :
        LET r == Execute(VariableValue(<<v0, v1>>), CurrentState) IN
        IF /\ globals[v0].t = "Instance"
           /\ v1 \in DOMAIN heap[globals[v0].v].fields
        THEN r = Ok(heap[globals[v0].v].fields[v1], CurrentState)
        ELSE r.k = "error"

\* C10: self in a method is the instance the method was called on: what the
\* callee assigns through self.field is what the caller, and every other
\* name bound to that instance, reads after the call, whether the body
\* ended by Return (say) or by reaching its end (set).
C10_SelfIsTheInstance ==
    /\ \A a \in BoundTo({"Instance"}), b \in BoundTo({"Instance"}),
          n \in 8..9 :
          LET cls == heap[globals[a].v].cls
              set == Execute(MethodCall(Var(a), "set", <<Num(n)>>),
                             CurrentState)
              say == Execute(MethodCall(Var(a), "say", <<Num(n)>>),
                             CurrentState)
              me == Execute(MethodCall(Var(a), "me", <<>>), CurrentState)
          IN  (ClassInstance_HasMethod(cls, "set", 1) /\ globals[a] = globals[b])
              => /\ set.k = "ok"
                 /\ Execute(VariableValue(<<b, "v">>), StateOf(set))
                        = Ok(Number(n), StateOf(set))
                 /\ say.k = "ok"
                 /\ Execute(VariableValue(<<b, "log">>), StateOf(say))
                        = Ok(Number(n), StateOf(say))
                 /\ me.k = "ok"
                 /\ me.v = globals[b]
    /\ (/\ last = MethodCall(Var("x"), "set", <<Num(8)>>)
        /\ outcome.k = "ok"
        /\ "a" \in DOMAIN globals)
       => (globals["x"] = globals["a"]
           => heap[globals["a"].v].fields["v"] = Number(8))

\* The program bound x to the instance a refers to and called x.set(8).
C10_Witness ==
    /\ last = MethodCall(Var("x"), "set", <<Num(8)>>)
    /\ outcome.k = "ok"
    /\ "a" \in DOMAIN globals
    /\ globals["x"] = globals["a"]

====
